---- MODULE Spec2Model ----
(***************************************************************************)
(* Verification model of jsonnet-armed's evaluation orchestration:        *)
(* cache-key derivation (cache.go GenerateCacheKey), the fresh/stale      *)
(* cache (cache.go GetWithStale / Set / Clean), the atomic file writer    *)
(* (main.go writeFileAtomic) and the deadline-bounded run (main.go        *)
(* CLI.run / CLI.processRequest / CLI.writeOutput).                       *)
(*                                                                         *)
(* Strings and byte buffers are sequences of one-character strings.       *)
(***************************************************************************)
EXTENDS Naturals, Integers, Sequences, FiniteSets, TLC

VARIABLES
    \* ---- key derivation (SpecKey) ----
    kReqA, kReqB,       \* two CLI request values
    kCwdA, kCwdB,       \* working directory each request is resolved in
    kCntA, kCntB,       \* source bytes handed to GenerateCacheKey
    kKeyA, kKeyB,       \* result of GenerateCacheKey for each request
    kN,                 \* number of changes applied to request B so far
    \* ---- file system and clock ----
    fs,                 \* path -> file (content, mode, mtime) or NoFile
    now,                \* wall clock
    \* ---- writeFileAtomic, one activation per process ----
    aw,                 \* process -> activation of writeFileAtomic
    \* ---- a reader of the output path (SpecAW) ----
    awPrior,            \* what the output path held before any writer ran
    rdSeen,             \* what the reader saw when it last opened the path
    \* ---- the cache (cache.go) ----
    cTtl, cStale,       \* Cache.ttl, Cache.staleTTL (cli.Cache, cli.Stale)
    cdir,               \* mode of the cache directory, "" when it is missing
    gs,                 \* activation of GetWithStale
    st,                 \* activation of Set
    log,                \* slog messages written so far
    \* ---- one invocation of CLI.run (main.go) ----
    cli,                \* the request: Filename, OutputFile, WriteIfChanged,
                        \* Timeout, and the unexported cacheKey
    run,                \* the caller's goroutine: position and return value
    ctx,                \* the run's context: active, deadline, canceled
    resultCh,           \* the completion channel, capacity 1
    task,               \* the background goroutine running processRequest
    wbuf,               \* what cli.writer has received
    cl,                 \* the goroutine running cache.Clean
    hist,               \* history: what was evaluated, handed to delivery, ...
    \* ---- output delivery to several destinations ----
    dl                  \* activation of Deliver: destinations, outcomes

keyVars == <<kReqA, kReqB, kCwdA, kCwdB, kCntA, kCntB, kKeyA, kKeyB, kN>>

fsVars == <<fs, now, aw>>

rdVars == <<awPrior, rdSeen>>

cacheVars == <<cTtl, cStale, cdir, gs, st, log>>

runVars == <<cli, run, ctx, resultCh, task, wbuf, cl, hist>>

dlVars == <<dl>>

vars == <<keyVars, fsVars, rdVars, cacheVars, runVars, dlVars>>

(***************************************************************************)
(* Bounds                                                                  *)
(***************************************************************************)
MaxChanges == 2     \* fields in which request B may differ from request A
NumWriters == 2     \* concurrent callers of writeFileAtomic on one path
PayloadLen == 2     \* bytes in each writer's payload
MaxNow == 3         \* the clock stops here
MaxTtl == 2         \* largest cache ttl tried in SpecCache
MaxStale == 3       \* largest stale duration tried in SpecCache

(***************************************************************************)
(* Strings                                                                 *)
(***************************************************************************)
\* rank of a character in byte order, used to compare map keys
CharRank(c) ==
    CASE c = "\"" -> 1
      [] c = "-"  -> 2
      [] c = "/"  -> 3
      [] c = "1"  -> 4
      [] c = "2"  -> 5
      [] c = "\\" -> 6
      [] c = "a"  -> 7
      [] c = "b"  -> 8
      [] c = "t"  -> 9
      [] c = "u"  -> 10
      [] c = "x"  -> 11
      [] c = "y"  -> 12
      [] c = "{"  -> 13
      [] c = "}"  -> 14
      [] OTHER    -> 15

RECURSIVE StrLess(_, _)
\* s < t in Go's string order (bytewise lexicographic)
StrLess(s, t) ==
    IF t = <<>> THEN FALSE
    ELSE IF s = <<>> THEN TRUE
    ELSE IF Head(s) = Head(t) THEN StrLess(Tail(s), Tail(t))
    ELSE CharRank(Head(s)) < CharRank(Head(t))

(***************************************************************************)
(* encoding/json as used by json.Marshal(req)                              *)
(***************************************************************************)
\* a Go map[string]string: nil, or a finite function from names to values
\* together with the order in which ranging over the map yields its names
NilMap == [isNil |-> TRUE, kv |-> <<>>, iter |-> <<>>]

MakeMapIter(f, iter) == [isNil |-> FALSE, kv |-> f, iter |-> iter]

\* one character of a JSON string literal: quote and backslash are escaped
JSONEscapeChar(c) ==
    IF c = "\"" THEN <<"\\", "\"">>
    ELSE IF c = "\\" THEN <<"\\", "\\">>
    ELSE <<c>>

RECURSIVE JSONEscape(_)
JSONEscape(s) ==
    IF s = <<>> THEN <<>> ELSE JSONEscapeChar(Head(s)) \o JSONEscape(Tail(s))

JSONString(s) == <<"\"">> \o JSONEscape(s) \o <<"\"">>

JSONBool(b) == IF b THEN <<"true">> ELSE <<"false">>

RECURSIVE JSONNumber(_)
\* decimal digits of a non-negative integer (a time.Duration marshals as int64)
JSONNumber(n) ==
    LET d == n % 10
        c == CASE d = 0 -> "0" [] d = 1 -> "1" [] d = 2 -> "2" [] d = 3 -> "3"
               [] d = 4 -> "4" [] d = 5 -> "5" [] d = 6 -> "6" [] d = 7 -> "7"
               [] d = 8 -> "8" [] OTHER -> "9"
    IN  IF n < 10 THEN <<c>> ELSE JSONNumber(n \div 10) \o <<c>>

\* the least key of a non-empty key set (json sorts map keys)
MinKey(ks) == CHOOSE k \in ks : \A o \in ks \ {k} : StrLess(k, o)

RECURSIVE SortedKeys(_)
SortedKeys(ks) ==
    IF ks = {} THEN <<>>
    ELSE LET k == MinKey(ks) IN <<k>> \o SortedKeys(ks \ {k})

\* a map whose iteration happens to yield the names in sorted order
MakeMap(f) == MakeMapIter(f, SortedKeys(DOMAIN f))

\* encoding/json collects the names of a map by ranging over it and sorts
\* them before writing the members
SortKeys(names) == SortedKeys({names[i] : i \in DOMAIN names})

RECURSIVE JSONMembers(_, _)
\* "k":"v" members of a map in the given key order, comma separated
JSONMembers(f, keys) ==
    IF keys = <<>> THEN <<>>
    ELSE JSONString(Head(keys)) \o <<":">> \o JSONString(f[Head(keys)])
         \o (IF Len(keys) > 1 THEN <<",">> ELSE <<>>)
         \o JSONMembers(f, Tail(keys))

JSONMap(m) ==
    IF m.isNil THEN <<"null">>
    ELSE <<"{">> \o JSONMembers(m.kv, SortKeys(m.iter)) \o <<"}">>

\* a struct member: "Name":value
JSONField(name, value) == <<"\"", name, "\"", ":">> \o value

\* a marshalling that leaves the output-destination fields out
MarshalCLI_NoDestination(req) ==
    <<"{">>
    \o JSONField("ExtStr", JSONMap(req.ExtStr)) \o <<",">>
    \o JSONField("ExtCode", JSONMap(req.ExtCode)) \o <<",">>
    \o JSONField("Timeout", JSONNumber(req.Timeout)) \o <<",">>
    \o JSONField("Cache", JSONNumber(req.Cache)) \o <<",">>
    \o JSONField("Stale", JSONNumber(req.Stale)) \o <<",">>
    \o JSONField("Version", JSONBool(req.Version)) \o <<",">>
    \o JSONField("Filename", JSONString(req.Filename))
    \o <<"}">>

\* json.Marshal(req): every exported field of CLI in declaration order; the
\* unexported fields (writer, cacheKey, functions) are not marshalled
MarshalCLI(req) ==
    <<"{">>
    \o JSONField("Output", JSONString(req.Output)) \o <<",">>
    \o JSONField("Stdout", JSONBool(req.Stdout)) \o <<",">>
    \o JSONField("WriteIfChanged", JSONBool(req.WriteIfChanged)) \o <<",">>
    \o JSONField("ExtStr", JSONMap(req.ExtStr)) \o <<",">>
    \o JSONField("ExtCode", JSONMap(req.ExtCode)) \o <<",">>
    \o JSONField("Timeout", JSONNumber(req.Timeout)) \o <<",">>
    \o JSONField("Cache", JSONNumber(req.Cache)) \o <<",">>
    \o JSONField("Stale", JSONNumber(req.Stale)) \o <<",">>
    \o JSONField("Version", JSONBool(req.Version)) \o <<",">>
    \o JSONField("Filename", JSONString(req.Filename))
    \o <<"}">>

(***************************************************************************)
(* cache.go: GenerateCacheKey                                              *)
(***************************************************************************)
\* a working directory: known, or os.Getwd fails
NoCwd == [ok |-> FALSE, path |-> <<>>]

Cwd(p) == [ok |-> TRUE, path |-> p]

\* filepath.Abs: an absolute name is kept, a relative one is joined to the
\* working directory and fails when the working directory is unknown
FilepathAbs(cwd, name) ==
    IF name # <<>> /\ Head(name) = "/" THEN [err |-> FALSE, path |-> name]
    ELSE IF ~cwd.ok THEN [err |-> TRUE, path |-> <<>>]
    ELSE [err |-> FALSE, path |-> cwd.path \o <<"/">> \o name]

Stdin == <<"-">>

\* hex.EncodeToString(sha256(bytes)).  The digest is taken to be collision
\* free: it is identified with the byte stream that was hashed.
Sha256Hex(bytes) == [sha256 |-> bytes]

\* a hasher that is never fed the source content
HashInput_NoContent(req, absPath, content) ==
    MarshalCLI(req) \o absPath

\* the three hasher.Write calls, in order
HashInput(req, absPath, content) ==
    MarshalCLI(req) \o absPath \o content

GenerateCacheKey(req, cwd, content) ==
    LET abs == IF req.Filename # Stdin THEN FilepathAbs(cwd, req.Filename)
               ELSE [err |-> FALSE, path |-> <<>>]
    IN  IF abs.err THEN [err |-> TRUE, key |-> Sha256Hex(<<>>)]
        ELSE [err |-> FALSE, key |-> Sha256Hex(HashInput(req, abs.path, content))]

(***************************************************************************)
(* The file system                                                         *)
(***************************************************************************)
Task == 0                       \* the background task of a run

Writers == 1..NumWriters        \* independent callers of writeFileAtomic

Procs == {Task} \cup Writers

OutPath == <<"out">>            \* the output file of the request

CachePath == <<"cache">>        \* filepath.Join(c.dir, key+".json")

TargetPaths == {OutPath, CachePath}

\* os.CreateTemp(dir, base+".tmp"): a fresh name in the directory of the
\* target, different for every caller
TempFor_InPlace(filename, p) == filename

\* one temporary name for every caller
TempFor_Shared(filename, p) == filename \o <<".tmp", 0>>

TempFor(filename, p) == filename \o <<".tmp", p>>

SrcPath == <<"src">>            \* the template file, cli.Filename

FsPaths ==
    TargetPaths \cup {TempFor(t, p) : t \in TargetPaths, p \in Procs}
    \cup {SrcPath}

NoFile == [exists |-> FALSE, content |-> <<>>, mode |-> "", mtime |-> 0]

File(content, mode, mtime) ==
    [exists |-> TRUE, content |-> content, mode |-> mode, mtime |-> mtime]

\* what a reader that opens the path gets: nothing, or the bytes of the file
View(f) == [exists |-> f.exists, content |-> f.content]

(***************************************************************************)
(* main.go: writeFileAtomic, one step per system call                      *)
(***************************************************************************)
AwIdle == [pc |-> "idle", path |-> <<>>, data |-> <<>>, perm |-> "",
           written |-> 0, err |-> FALSE]

\* entry: writeFileAtomic(filename, data, perm)
AwCall(p, filename, data, perm) ==
    [aw EXCEPT ![p] = [pc |-> "start", path |-> filename, data |-> data,
                       perm |-> perm, written |-> 0, err |-> FALSE]]

AwTemp(p) == TempFor(aw[p].path, p)

\* tmpfile, err := os.CreateTemp(dir, base+".tmp")
AwCreateTemp(p) ==
    /\ aw[p].pc = "start"
    /\ fs' = [fs EXCEPT ![AwTemp(p)] = File(<<>>, "0600", now)]
    /\ aw' = [aw EXCEPT ![p].pc = "created"]
    /\ UNCHANGED <<now, keyVars, rdVars, dlVars, cacheVars, runVars>>

\* tmpfile.Write(data): the bytes reach the file one after the other
AwWrite(p) ==
    /\ aw[p].pc = "created"
    /\ aw[p].written < Len(aw[p].data)
    /\ LET n == aw[p].written + 1
           f == fs[AwTemp(p)]
       IN  /\ fs' = [fs EXCEPT ![AwTemp(p)] =
                        File(Append(f.content, aw[p].data[n]), f.mode, now)]
           /\ aw' = [aw EXCEPT ![p].written = n]
    /\ UNCHANGED <<now, keyVars, rdVars, dlVars, cacheVars, runVars>>

\* tmpfile.Sync()
AwSync(p) ==
    /\ aw[p].pc = "created"
    /\ aw[p].written = Len(aw[p].data)
    /\ aw' = [aw EXCEPT ![p].pc = "synced"]
    /\ UNCHANGED <<fs, now, keyVars, rdVars, dlVars, cacheVars, runVars>>

\* a writer that sets the mode on the named file instead of the temporary
\* one
AwChmod_OnTarget(p) ==
    /\ aw[p].pc = "synced"
    /\ fs' = IF fs[aw[p].path].exists
             THEN [fs EXCEPT ![aw[p].path].mode = aw[p].perm] ELSE fs
    /\ aw' = [aw EXCEPT ![p].pc = "chmoded"]
    /\ UNCHANGED <<now, keyVars, rdVars, dlVars, cacheVars, runVars>>

\* a writer that leaves the temporary file with the mode of os.CreateTemp
AwChmod_Skipped(p) ==
    /\ aw[p].pc = "synced"
    /\ fs' = fs
    /\ aw' = [aw EXCEPT ![p].pc = "chmoded"]
    /\ UNCHANGED <<now, keyVars, rdVars, dlVars, cacheVars, runVars>>

\* tmpfile.Chmod(perm)
AwChmod(p) ==
    /\ aw[p].pc = "synced"
    /\ fs' = [fs EXCEPT ![AwTemp(p)].mode = aw[p].perm]
    /\ aw' = [aw EXCEPT ![p].pc = "chmoded"]
    /\ UNCHANGED <<now, keyVars, rdVars, dlVars, cacheVars, runVars>>

\* tmpfile.Close(); tmpfile = nil
AwClose(p) ==
    /\ aw[p].pc = "chmoded"
    /\ aw' = [aw EXCEPT ![p].pc = "closed"]
    /\ UNCHANGED <<fs, now, keyVars, rdVars, dlVars, cacheVars, runVars>>

\* os.Rename(tmpname, filename); return nil
AwRename(p) ==
    /\ aw[p].pc = "closed"
    /\ fs' = [fs EXCEPT ![aw[p].path] = fs[AwTemp(p)], ![AwTemp(p)] = NoFile]
    /\ aw' = [aw EXCEPT ![p].pc = "done"]
    /\ UNCHANGED <<now, keyVars, rdVars, dlVars, cacheVars, runVars>>

\* a failure path without the deferred Close+Remove
AwFail_NoCleanup(p) ==
    /\ aw[p].pc \in {"start", "created", "synced", "chmoded", "closed"}
    /\ fs' = fs
    /\ aw' = [aw EXCEPT ![p].pc = "done", ![p].err = TRUE]
    /\ UNCHANGED <<now, keyVars, rdVars, dlVars, cacheVars, runVars>>

\* a cleanup that removes the named file instead of the temporary one
AwFail_RemovesTarget(p) ==
    /\ aw[p].pc \in {"start", "created", "synced", "chmoded", "closed"}
    /\ fs' = IF aw[p].pc = "start" THEN fs
             ELSE [fs EXCEPT ![aw[p].path] = NoFile]
    /\ aw' = [aw EXCEPT ![p].pc = "done", ![p].err = TRUE]
    /\ UNCHANGED <<now, keyVars, rdVars, dlVars, cacheVars, runVars>>

\* the system call the activation is about to make fails: CreateTemp
\* returns the error at once; after it the deferred Close+Remove (or the
\* Remove after a failed Rename) deletes the temporary file
AwFail(p) ==
    /\ aw[p].pc \in {"start", "created", "synced", "chmoded", "closed"}
    /\ fs' = IF aw[p].pc = "start" THEN fs
             ELSE [fs EXCEPT ![AwTemp(p)] = NoFile]
    /\ aw' = [aw EXCEPT ![p].pc = "done", ![p].err = TRUE]
    /\ UNCHANGED <<now, keyVars, rdVars, dlVars, cacheVars, runVars>>

FsInitEmpty ==
    /\ fs = [q \in FsPaths |-> NoFile]
    /\ now = 0
    /\ aw = [p \in Procs |-> AwIdle]

(***************************************************************************)
(* cache.go: GetWithStale                                                  *)
(***************************************************************************)
GsIdle == [pc |-> "idle", age |-> 0, branch |-> "", found |-> FALSE,
           content |-> <<>>, isStale |-> FALSE, exists |-> FALSE,
           readErr |-> FALSE, removeErr |-> FALSE]

\* a stale window that starts where the fresh window ends
GsClassify_Additive(ttl, staleTTL, age) ==
    IF age <= ttl THEN "fresh"
    ELSE IF staleTTL > 0 /\ age <= ttl + staleTTL THEN "stale"
    ELSE "expired"

\* the age tests of GetWithStale: fresh within ttl, stale within staleTTL
\* (both measured from the modification time), otherwise expired
GsClassify(ttl, staleTTL, age) ==
    IF age <= ttl THEN "fresh"
    ELSE IF staleTTL > 0 /\ age <= staleTTL THEN "stale"
    ELSE "expired"

\* a lookup that goes to the file whatever the ttl
GsBegin_NoTtlCheck == [GsIdle EXCEPT !.pc = "stat"]

\* entry of GetWithStale: with ttl == 0 it returns ("", false, false) at once
GsBegin ==
    IF cTtl = 0 THEN [GsIdle EXCEPT !.pc = "done"]
    ELSE [GsIdle EXCEPT !.pc = "stat"]

\* os.Stat(cachePath) and age := time.Since(stat.ModTime())
GsStat ==
    /\ gs.pc = "stat"
    /\ IF ~fs[CachePath].exists
       THEN gs' = [gs EXCEPT !.pc = "done"]
       ELSE LET age == now - fs[CachePath].mtime
                br == GsClassify(cTtl, cStale, age)
            IN  gs' = [gs EXCEPT !.pc = IF br = "expired" THEN "remove" ELSE "read",
                                 !.age = age, !.branch = br, !.found = TRUE]
    /\ UNCHANGED <<fsVars, cTtl, cStale, cdir, st, log, keyVars, rdVars, dlVars, runVars>>

\* a read that renews the entry's modification time
GsRead_Touches ==
    /\ gs.pc = "read"
    /\ fs[CachePath].exists
    /\ gs' = [gs EXCEPT !.pc = "done", !.content = fs[CachePath].content,
                         !.isStale = (gs.branch = "stale"), !.exists = TRUE]
    /\ fs' = [fs EXCEPT ![CachePath].mtime = now]
    /\ UNCHANGED <<now, aw, cTtl, cStale, cdir, st, log, keyVars, rdVars, dlVars, runVars>>

\* os.ReadFile(cachePath) succeeds: return (string(data), isStale, true)
GsRead ==
    /\ gs.pc = "read"
    /\ fs[CachePath].exists
    /\ gs' = [gs EXCEPT !.pc = "done", !.content = fs[CachePath].content,
                         !.isStale = (gs.branch = "stale"), !.exists = TRUE]
    /\ UNCHANGED <<fsVars, cTtl, cStale, cdir, st, log, keyVars, rdVars, dlVars, runVars>>

\* a read error that is reported as an entry without content
GsReadError_Exists(g) == [g EXCEPT !.pc = "done", !.readErr = TRUE, !.exists = TRUE]

\* the read error is dropped: return "", false, false
GsReadError(g) == [g EXCEPT !.pc = "done", !.readErr = TRUE]

\* os.ReadFile(cachePath) fails: warn and return a miss
GsReadFail ==
    /\ gs.pc = "read"
    /\ gs' = GsReadError(gs)
    /\ log' = log \cup {IF gs.branch = "fresh"
                         THEN "Failed to read fresh cache file"
                         ELSE "Failed to read stale cache file"}
    /\ UNCHANGED <<fsVars, cTtl, cStale, cdir, st, keyVars, rdVars, dlVars, runVars>>

\* os.Remove(cachePath) of a completely expired entry, then a miss
GsRemove ==
    /\ gs.pc = "remove"
    /\ fs' = [fs EXCEPT ![CachePath] = NoFile]
    /\ gs' = [gs EXCEPT !.pc = "done"]
    /\ UNCHANGED <<now, aw, cTtl, cStale, cdir, st, log, keyVars, rdVars, dlVars, runVars>>

\* os.Remove(cachePath) fails: warn, the entry stays, still a miss
GsRemoveFail ==
    /\ gs.pc = "remove"
    /\ gs' = [gs EXCEPT !.pc = "done", !.removeErr = TRUE]
    /\ log' = log \cup {"Failed to remove expired cache file"}
    /\ UNCHANGED <<fsVars, cTtl, cStale, cdir, st, keyVars, rdVars, dlVars, runVars>>

(***************************************************************************)
(* cache.go: Set                                                           *)
(***************************************************************************)
StIdle == [pc |-> "idle", data |-> <<>>, err |-> FALSE]

\* entry of Set(key, result): with ttl == 0 it returns nil at once
StBegin(data) ==
    IF cTtl = 0 THEN [pc |-> "done", data |-> data, err |-> FALSE]
    ELSE [pc |-> "mkdir", data |-> data, err |-> FALSE]

\* os.MkdirAll(c.dir, 0755) succeeds, then writeFileAtomic(cachePath, result, 0600)
StMkdir ==
    /\ st.pc = "mkdir"
    /\ cdir' = IF cdir = "" THEN "0755" ELSE cdir
    /\ st' = [st EXCEPT !.pc = "write"]
    /\ aw' = AwCall(Task, CachePath, st.data, "0600")
    /\ UNCHANGED <<fs, now, cTtl, cStale, gs, log, keyVars, rdVars, dlVars, runVars>>

\* os.MkdirAll fails: warn and return the error
StMkdirFail ==
    /\ st.pc = "mkdir"
    /\ cdir = ""
    /\ st' = [st EXCEPT !.pc = "done", !.err = TRUE]
    /\ log' = log \cup {"Failed to create cache directory"}
    /\ UNCHANGED <<fsVars, cTtl, cStale, cdir, gs, keyVars, rdVars, dlVars, runVars>>

\* writeFileAtomic has returned: Set returns its error
StReturn ==
    /\ st.pc = "write"
    /\ aw[Task].pc = "done"
    /\ st' = [st EXCEPT !.pc = "done", !.err = aw[Task].err]
    /\ aw' = [aw EXCEPT ![Task] = AwIdle]
    /\ UNCHANGED <<fs, now, cTtl, cStale, cdir, gs, log, keyVars, rdVars, dlVars, runVars>>

\* the clock advances
Tick ==
    /\ now < MaxNow
    /\ now' = now + 1
    /\ UNCHANGED <<fs, aw, keyVars, rdVars, dlVars, cacheVars, runVars>>

(***************************************************************************)
(* cache.go: Clean, started by CLI.run as a goroutine of its own           *)
(***************************************************************************)
ClIdle == [pc |-> "idle"]

\* a limit that adds the stale duration to the ttl
CleanMaxAge_Sum(ttl, staleTTL) == ttl + staleTTL

\* maxAge of Clean: staleTTL when it is longer than ttl, otherwise ttl
CleanMaxAge(ttl, staleTTL) ==
    IF staleTTL > 0 /\ staleTTL > ttl THEN staleTTL ELSE ttl

\* entry of Clean: with ttl == 0 it returns nil at once
ClBegin == IF cTtl = 0 THEN [ClIdle EXCEPT !.pc = "done"]
           ELSE [ClIdle EXCEPT !.pc = "scan"]

\* os.ReadDir(c.dir) and, for the entry, os.Stat and the age test: a missing
\* directory or entry ends the scan (temporary files do not end in ".json"
\* and are skipped)
CleanScan ==
    /\ cl.pc = "scan"
    /\ cl' = [cl EXCEPT !.pc =
                IF cdir # "" /\ fs[CachePath].exists
                   /\ now - fs[CachePath].mtime > CleanMaxAge(cTtl, cStale)
                THEN "remove" ELSE "done"]
    /\ UNCHANGED <<fsVars, cacheVars, keyVars, rdVars, dlVars,
                   cli, run, ctx, resultCh, task, wbuf, hist>>

\* os.Remove(cachePath) of an entry found expired
CleanRemove ==
    /\ cl.pc = "remove"
    /\ fs' = [fs EXCEPT ![CachePath] = NoFile]
    /\ cl' = [cl EXCEPT !.pc = "done"]
    /\ UNCHANGED <<now, aw, cacheVars, keyVars, rdVars, dlVars,
                   cli, run, ctx, resultCh, task, wbuf, hist>>

\* os.Remove fails: warn and go on
CleanRemoveFail ==
    /\ cl.pc = "remove"
    /\ cl' = [cl EXCEPT !.pc = "done"]
    /\ log' = log \cup {"Failed to remove expired cache file during cleanup"}
    /\ UNCHANGED <<fsVars, cTtl, cStale, cdir, gs, st, keyVars, rdVars, dlVars,
                   cli, run, ctx, resultCh, task, wbuf, hist>>

(***************************************************************************)
(* main.go: CLI.run                                                        *)
(***************************************************************************)
ErrNil == ""

ErrStdin == "failed to read from stdin"

ErrReadFile == "failed to read file"

ErrEvaluate == "failed to evaluate"

ErrDeliver == "delivery failed"

\* fmt.Errorf("evaluation timed out after %v", d), d in seconds
TimedOutAfter(d) == "evaluation timed out after " \o ToString(d) \o "s"

\* the deadline error of this request: it prints cli.Timeout
ErrTimedOut == TimedOutAfter(cli.Timeout)

ErrDeadlineExceeded == "context deadline exceeded"

ErrCanceled == "context canceled"

RunIdle == [pc |-> "init", ret |-> ErrNil, ready |-> {}]

\* return err, noting which cases of the select could proceed
RunReturned(err, ready) == [pc |-> "returned", ret |-> err, ready |-> ready]

\* a select that has no case for the context
CtxDoneReady_Never(c) == FALSE

\* case <-ctx.Done() can proceed
CtxDoneReady(c) == c # "active"

\* a test of ctx.Err() that is the wrong way round
CtxDoneError_Inverted(c) == IF c = "deadline" THEN ErrCanceled ELSE ErrTimedOut

\* ctx.Err(): the context of the select is the caller's context, wrapped by
\* context.WithTimeout when cli.Timeout > 0.  It ends with DeadlineExceeded
\* when the timer of WithTimeout fires ("deadline") or the caller's own
\* deadline passes ("callerDeadline"), and with Canceled when cancel() is
\* called ("canceled") or the caller cancels ("callerCanceled")
CtxErr(c) ==
    CASE c \in {"deadline", "callerDeadline"} -> ErrDeadlineExceeded
      [] c \in {"canceled", "callerCanceled"} -> ErrCanceled
      [] OTHER -> ErrNil

\* the error returned by the ctx.Done() case:
\* if ctx.Err() == context.DeadlineExceeded { timed out after cli.Timeout }
\* return ctx.Err()
CtxDoneError(c) ==
    IF CtxErr(c) = ErrDeadlineExceeded THEN ErrTimedOut ELSE CtxErr(c)

\* defer cancel(): returning releases the timeout context
CtxAfterReturn(c) == IF cli.Timeout > 0 /\ c = "active" THEN "canceled" ELSE c

\* cache := NewCache(...); go cache.Clean(); context.WithTimeout;
\* resultCh := make(chan result, 1); go func() { processRequest ... }()
RunStart ==
    /\ run.pc = "init"
    /\ run' = [run EXCEPT !.pc = "select"]
    /\ task' = [task EXCEPT !.pc = "read"]
    /\ cl' = [cl EXCEPT !.pc = IF cTtl > 0 THEN "scan" ELSE "idle"]
    /\ UNCHANGED <<fsVars, cacheVars, keyVars, rdVars, dlVars,
                   cli, ctx, resultCh, wbuf, hist>>

\* select: no case can proceed, the goroutine blocks
RunPark ==
    /\ run.pc = "select"
    /\ resultCh = <<>>
    /\ ~CtxDoneReady(ctx)
    /\ run' = [run EXCEPT !.pc = "parked"]
    /\ UNCHANGED <<fsVars, cacheVars, keyVars, rdVars, dlVars,
                   cli, ctx, resultCh, task, wbuf, cl, hist>>

SelectReady ==
    (IF resultCh # <<>> THEN {"result"} ELSE {})
    \cup (IF CtxDoneReady(ctx) THEN {"done"} ELSE {})

\* select: case res := <-resultCh is chosen; return res.err
RunRecvResult ==
    /\ run.pc = "select"
    /\ resultCh # <<>>
    /\ run' = RunReturned(Head(resultCh), SelectReady)
    /\ resultCh' = <<>>
    /\ ctx' = CtxAfterReturn(ctx)
    /\ UNCHANGED <<fsVars, cacheVars, keyVars, rdVars, dlVars,
                   cli, task, wbuf, cl, hist>>

\* select: case <-ctx.Done() is chosen
RunCtxDone ==
    /\ run.pc = "select"
    /\ CtxDoneReady(ctx)
    /\ run' = RunReturned(CtxDoneError(ctx), SelectReady)
    /\ UNCHANGED <<fsVars, cacheVars, keyVars, rdVars, dlVars,
                   cli, ctx, resultCh, task, wbuf, cl, hist>>

\* the timer of context.WithTimeout fires; a goroutine blocked in the select
\* is woken by it
DeadlineFire ==
    /\ cli.Timeout > 0
    /\ run.pc \in {"select", "parked"}
    /\ ctx = "active"
    /\ ctx' = "deadline"
    /\ hist' = [hist EXCEPT !.events = Append(@, "deadline")]
    /\ run' = IF run.pc = "parked" /\ CtxDoneReady("deadline")
              THEN RunReturned(CtxDoneError("deadline"), {"done"})
              ELSE run
    /\ UNCHANGED <<fsVars, cacheVars, keyVars, rdVars, dlVars,
                   cli, resultCh, task, wbuf, cl>>


\* the caller's context ends while Run waits: how is "callerCanceled" for a
\* call of the caller's cancel function and "callerDeadline" for the expiry
\* of a deadline the caller put on its context
CallerDone(how) ==
    /\ run.pc \in {"select", "parked"}
    /\ ctx = "active"
    /\ ctx' = how
    /\ hist' = [hist EXCEPT !.events = Append(@, how)]
    /\ run' = IF run.pc = "parked" /\ CtxDoneReady(how)
              THEN RunReturned(CtxDoneError(how), {"done"})
              ELSE run
    /\ UNCHANGED <<fsVars, cacheVars, keyVars, rdVars, dlVars,
                   cli, resultCh, task, wbuf, cl>>

\* the caller calls the cancel function of its context
CallerCancel ==
    /\ ctx = "active"
    /\ CallerDone("callerCanceled")

\* the deadline of the caller's context passes
CallerDeadline ==
    /\ ctx = "active"
    /\ CallerDone("callerDeadline")
(***************************************************************************)
(* main.go: CLI.processRequest, CLI.evaluate, CLI.writeOutput, run by the  *)
(* background goroutine                                                    *)
(***************************************************************************)
TaskIdle == [pc |-> "idle", staleContent |-> <<>>, jsonStr |-> <<>>,
             out |-> <<>>, res |-> ErrNil]

HistInit == [evalCalls |-> 0, evalErr |-> FALSE, outArgs |-> <<>>,
             setArgs |-> <<>>, events |-> <<>>, delivered |-> FALSE,
             outErr |-> FALSE, srcErr |-> "",
             calls |-> {}]

\* the documents an evaluation can produce: never empty
Docs == {<<"d", "1">>, <<"d", "2">>}

\* cache != nil: CLI.run creates the cache when cli.Cache > 0
CacheEnabled == cTtl > 0

\* return result{err: e}; the goroutine goes on to resultCh <- res
TaskReturn(e) == [task EXCEPT !.pc = "post", !.res = e]

\* call cli.writeOutput(s)
TaskWriteOutput(s) == [task EXCEPT !.pc = "write", !.out = s]

\* the input is read: io.ReadAll(os.Stdin), or os.ReadFile for the cache
\* key, or nothing for a file when the cache is off
TaskRead ==
    /\ task.pc = "read"
    /\ task' = [task EXCEPT !.pc = IF CacheEnabled THEN "key" ELSE "eval"]
    /\ UNCHANGED <<fsVars, cacheVars, keyVars, rdVars, dlVars,
                   cli, run, ctx, resultCh, wbuf, cl, hist>>

\* a failed read reported as an evaluation failure
ReadError_AsEvaluate(name) == ErrEvaluate

\* "failed to read from stdin: %w" or "failed to read file: %w"
ReadError(name) == IF name = Stdin THEN ErrStdin ELSE ErrReadFile

\* the read of the input fails
TaskReadFail ==
    /\ task.pc = "read"
    /\ cli.Filename = Stdin \/ CacheEnabled
    /\ task' = TaskReturn(ReadError(cli.Filename))
    /\ hist' = [hist EXCEPT !.srcErr = "read"]
    /\ UNCHANGED <<fsVars, cacheVars, keyVars, rdVars, dlVars,
                   cli, run, ctx, resultCh, wbuf, cl>>

\* cache.GenerateCacheKey succeeds; cache.GetWithStale(cacheKey) is called
TaskKey ==
    /\ task.pc = "key"
    /\ task' = [task EXCEPT !.pc = "lookup"]
    /\ gs' = GsBegin
    /\ UNCHANGED <<fsVars, cTtl, cStale, cdir, st, log, keyVars, rdVars, dlVars,
                   cli, run, ctx, resultCh, wbuf, cl, hist>>

\* cache.GenerateCacheKey fails (filepath.Abs of a file name): warn and go
\* on without the cache
TaskKeyFail ==
    /\ task.pc = "key"
    /\ cli.Filename # Stdin
    /\ task' = [task EXCEPT !.pc = "eval"]
    /\ log' = log \cup {"Failed to generate cache key"}
    /\ UNCHANGED <<fsVars, cTtl, cStale, cdir, gs, st, keyVars, rdVars, dlVars,
                   cli, run, ctx, resultCh, wbuf, cl, hist>>

\* a lookup that never counts as a fresh hit
FreshHit_Never(exists, isStale) == FALSE

\* exists && !isStale: use the cached result without evaluating
FreshHit(exists, isStale) == exists /\ ~isStale

\* the value kept in staleContent after the lookup
StaleFor(exists, isStale, content) == IF exists THEN content ELSE <<>>

\* GetWithStale has returned: deliver a fresh hit, or keep a stale result
\* for later and store the key in cli.cacheKey
TaskLookupDone ==
    /\ task.pc = "lookup"
    /\ gs.pc = "done"
    /\ IF FreshHit(gs.exists, gs.isStale)
       THEN /\ task' = TaskWriteOutput(gs.content)
            /\ hist' = [hist EXCEPT !.outArgs = Append(@, gs.content)]
            /\ UNCHANGED cli
       ELSE /\ task' = [task EXCEPT !.pc = "eval",
                          !.staleContent = StaleFor(gs.exists, gs.isStale, gs.content)]
            /\ cli' = [cli EXCEPT !.cacheKey = "K"]
            /\ UNCHANGED hist
    /\ UNCHANGED <<fsVars, cacheVars, keyVars, rdVars, dlVars,
                   run, ctx, resultCh, wbuf, cl>>

\* a run that stores nothing in the cache
ShouldCache_Never(key) == FALSE

\* cache != nil && cli.cacheKey != ""
ShouldCache(key) == CacheEnabled /\ key # ""

\* cli.evaluate succeeds with document d: store it in the cache when there is
\* a key, otherwise deliver it
TaskEvalOk ==
    /\ task.pc = "eval"
    /\ \E d \in Docs :
         IF ShouldCache(cli.cacheKey)
         THEN /\ task' = [task EXCEPT !.pc = "set", !.jsonStr = d]
              /\ st' = StBegin(d)
              /\ hist' = [hist EXCEPT !.evalCalls = @ + 1,
                                      !.setArgs = Append(@, d)]
         ELSE /\ task' = [TaskWriteOutput(d) EXCEPT !.jsonStr = d]
              /\ st' = st
              /\ hist' = [hist EXCEPT !.evalCalls = @ + 1,
                                      !.outArgs = Append(@, d)]
    /\ UNCHANGED <<fsVars, cTtl, cStale, cdir, gs, log, keyVars, rdVars, dlVars,
                   cli, run, ctx, resultCh, wbuf, cl>>

\* a fallback that is taken without looking at what the lookup returned
HasStaleFallback_Always(staleContent) == TRUE

\* staleContent != ""
HasStaleFallback(staleContent) == staleContent # <<>>

\* cli.evaluate fails: deliver the stale content with a warning when there is
\* some, otherwise return the evaluation error.  cause is "engine" when the
\* failure is that vm.EvaluateFile could not read the file.
EvalFails(cause) ==
    /\ IF HasStaleFallback(task.staleContent)
       THEN /\ log' = log \cup {"Evaluation failed, using stale cache"}
            /\ task' = TaskWriteOutput(task.staleContent)
            /\ hist' = [hist EXCEPT !.evalCalls = @ + 1, !.evalErr = TRUE,
                                    !.srcErr = cause,
                                    !.outArgs = Append(@, task.staleContent)]
       ELSE /\ log' = log
            /\ task' = TaskReturn(ErrEvaluate)
            /\ hist' = [hist EXCEPT !.evalCalls = @ + 1, !.evalErr = TRUE,
                                    !.srcErr = cause]
    /\ UNCHANGED <<fsVars, cTtl, cStale, cdir, gs, st, keyVars, rdVars, dlVars,
                   cli, run, ctx, resultCh, wbuf, cl>>

EvalFailStep(cause) ==
    /\ task.pc = "eval"
    /\ EvalFails(cause)

\* the template does not evaluate
TaskEvalFail ==
    /\ task.pc = "eval"
    /\ EvalFailStep("")

\* vm.EvaluateFile(cli.Filename) cannot read the file
TaskEvalReadFail ==
    /\ cli.Filename # Stdin
    /\ EvalFailStep("engine")

\* a run that gives up when the cache write fails
TaskAfterSet_Surfaced(failed) ==
    IF failed THEN TaskReturn("failed to save cache")
    ELSE TaskWriteOutput(task.jsonStr)

\* the error of cache.Set is only logged: err = cli.writeOutput(jsonStr)
TaskAfterSet(failed) == TaskWriteOutput(task.jsonStr)

\* cache.Set has returned: warn when it failed, then deliver the document
TaskSetDone ==
    /\ task.pc = "set"
    /\ st.pc = "done"
    /\ log' = IF st.err THEN log \cup {"Failed to save cache"} ELSE log
    /\ task' = TaskAfterSet(st.err)
    /\ hist' = [hist EXCEPT !.outArgs = Append(@, task.jsonStr)]
    /\ UNCHANGED <<fsVars, cTtl, cStale, cdir, gs, st, keyVars, rdVars, dlVars,
                   cli, run, ctx, resultCh, wbuf, cl>>

\* a delivery whose error is dropped
WriteOutputError_Dropped(failed) == ErrNil

\* a delivery failure reported as an evaluation failure
WriteOutputError_AsEvaluate(failed) == IF failed THEN ErrEvaluate ELSE ErrNil

\* err = cli.writeOutput(...); return result{err: err}
WriteOutputError(failed) == IF failed THEN ErrDeliver ELSE ErrNil

\* a comparison that stops at the file size
ShouldSkipWrite_SizeOnly(f, data) ==
    /\ f.exists
    /\ Len(f.content) = Len(data)

\* shouldSkipWrite: the file exists, has the length of the new data and the
\* same SHA-256 digest
ShouldSkipWrite(f, data) ==
    /\ f.exists
    /\ Len(f.content) = Len(data)
    /\ Sha256Hex(f.content) = Sha256Hex(data)

\* a writeOutput that compares whether or not --write-if-changed is set
SkipsWrite_Always(c, f, data) == ShouldSkipWrite(f, data)

\* cli.WriteIfChanged && shouldSkipWrite(cli.OutputFile, data)
SkipsWrite(c, f, data) == c.WriteIfChanged /\ ShouldSkipWrite(f, data)

\* writeOutput to a file with --write-if-changed: the content is unchanged,
\* return nil without writing
TaskWriteSkip ==
    /\ task.pc = "write"
    /\ cli.OutputFile # <<>>
    /\ SkipsWrite(cli, fs[OutPath], task.out)
    /\ task' = TaskReturn(WriteOutputError(FALSE))
    /\ hist' = [hist EXCEPT !.delivered = TRUE]
    /\ UNCHANGED <<fsVars, cacheVars, keyVars, rdVars, dlVars,
                   cli, run, ctx, resultCh, wbuf, cl>>

\* writeOutput to a file: call writeFileAtomic(cli.OutputFile, data, 0644).
\* With --write-if-changed this is the case where shouldSkipWrite says no,
\* which it also does when the existing file of equal size cannot be read.
TaskWriteFile ==
    /\ task.pc = "write"
    /\ cli.OutputFile # <<>>
    /\ \/ ~cli.WriteIfChanged
       \/ ~ShouldSkipWrite(fs[OutPath], task.out)
       \/ fs[OutPath].exists /\ Len(fs[OutPath].content) = Len(task.out)
    /\ task' = [task EXCEPT !.pc = "writing"]
    /\ aw' = AwCall(Task, OutPath, task.out, "0644")
    /\ UNCHANGED <<fs, now, cacheVars, keyVars, rdVars, dlVars,
                   cli, run, ctx, resultCh, wbuf, cl, hist>>

\* writeFileAtomic has returned: writeOutput returns its error
TaskWriteFileDone ==
    /\ task.pc = "writing"
    /\ aw[Task].pc = "done"
    /\ task' = TaskReturn(WriteOutputError(aw[Task].err))
    /\ hist' = [hist EXCEPT !.delivered = ~aw[Task].err,
                            !.outErr = aw[Task].err]
    /\ aw' = [aw EXCEPT ![Task] = AwIdle]
    /\ UNCHANGED <<fs, now, cacheVars, keyVars, rdVars, dlVars,
                   cli, run, ctx, resultCh, wbuf, cl>>

\* writeOutput without an output file: io.WriteString(cli.writer, jsonStr)
TaskWriteStream ==
    /\ task.pc = "write"
    /\ cli.OutputFile = <<>>
    /\ wbuf' = wbuf \o task.out
    /\ task' = TaskReturn(WriteOutputError(FALSE))
    /\ hist' = [hist EXCEPT !.delivered = TRUE]
    /\ UNCHANGED <<fsVars, cacheVars, keyVars, rdVars, dlVars,
                   cli, run, ctx, resultCh, cl>>

\* io.WriteString fails after the writer took n bytes, n less than the length
TaskWriteStreamFail ==
    /\ task.pc = "write"
    /\ cli.OutputFile = <<>>
    /\ \E n \in 0..(Len(task.out) - 1) :
          wbuf' = wbuf \o SubSeq(task.out, 1, n)
    /\ task' = TaskReturn(WriteOutputError(TRUE))
    /\ hist' = [hist EXCEPT !.outErr = TRUE]
    /\ UNCHANGED <<fsVars, cacheVars, keyVars, rdVars, dlVars,
                   cli, run, ctx, resultCh, cl>>

\* a send on a channel made without a buffer: it needs a receiver
CanSend_Unbuffered(ch, receiverWaiting) == receiverWaiting

\* resultCh is make(chan result, 1): a send proceeds when a receiver is
\* waiting or the buffer has room
CanSend(ch, receiverWaiting) == receiverWaiting \/ Len(ch) < 1

\* resultCh <- res: handed to the caller if it is blocked in the select,
\* otherwise buffered (the channel has room for the only send)
TaskPost ==
    /\ task.pc = "post"
    /\ CanSend(resultCh, run.pc = "parked")
    /\ task' = [task EXCEPT !.pc = "done"]
    /\ hist' = [hist EXCEPT !.events = Append(@, "post")]
    /\ IF run.pc = "parked"
       THEN /\ run' = RunReturned(task.res, {"result"})
            /\ ctx' = CtxAfterReturn(ctx)
            /\ UNCHANGED resultCh
       ELSE /\ resultCh' = Append(resultCh, task.res)
            /\ UNCHANGED <<run, ctx>>
    /\ UNCHANGED <<fsVars, cacheVars, keyVars, rdVars, dlVars, cli, wbuf, cl>>

(***************************************************************************)
(* functions: native functions that block on I/O while cli.evaluate runs.  *)
(* task.pc is "exec" or "http" while such a call is in flight.             *)
(***************************************************************************)
TaskFrame == <<fsVars, cacheVars, keyVars, rdVars, dlVars,
               cli, run, ctx, resultCh, wbuf, cl>>

\* the template calls exec or exec_with_env: executeCommand(ctx, ...) makes
\* context.WithTimeout(ctx, DefaultExecTimeout) and runs the command
EvalCallExec ==
    /\ task.pc = "eval"
    /\ task' = [task EXCEPT !.pc = "exec"]
    /\ UNCHANGED <<TaskFrame, hist>>

\* cmd.Run() returns and ctx.Err() == nil: the result goes to the template
ExecReturn ==
    /\ task.pc = "exec"
    /\ ctx = "active"
    /\ task' = [task EXCEPT !.pc = "eval"]
    /\ hist' = [hist EXCEPT !.calls = @ \cup {"exec"}]
    /\ UNCHANGED TaskFrame

\* the context of the run is done: exec.CommandContext kills the command
\* and executeCommand returns an error, which ends the evaluation
ExecCancelled ==
    /\ task.pc = "exec"
    /\ ctx # "active"
    /\ EvalFails(IF CtxErr(ctx) = ErrDeadlineExceeded
                 THEN "command execution timed out"
                 ELSE "command execution was cancelled")

\* DefaultExecTimeout passes before the context of the run is done
ExecTimeout ==
    /\ task.pc = "exec"
    /\ ctx = "active"
    /\ EvalFails("command execution timed out")

\* the template calls http_request: http.NewRequest(method, url, body) and
\* client.Do(req) with a client of its own, Timeout 30 * time.Second
EvalCallHttp ==
    /\ task.pc = "eval"
    /\ task' = [task EXCEPT !.pc = "http"]
    /\ UNCHANGED <<TaskFrame, hist>>

\* the response arrives and is read: the result goes to the template.  The
\* request carries no context, so the state of ctx plays no part
HttpReturn ==
    /\ task.pc = "http"
    /\ task' = [task EXCEPT !.pc = "eval"]
    /\ hist' = [hist EXCEPT !.calls = @ \cup {"http"}]
    /\ UNCHANGED TaskFrame

\* the transport fails or the 30 seconds of the client pass
HttpFail ==
    /\ task.pc = "http"
    /\ EvalFails("http_request: request failed")

(***************************************************************************)
(* Output delivery to several destinations (-o/--output repeated, file or  *)
(* HTTP(S) URL, and -S/--stdout): cli.go declares CLI.Output and           *)
(* CLI.Stdout, README.md and main_test.go describe the behaviour.          *)
(***************************************************************************)
HttpScheme == <<"h", "t", "t", "p", ":", "/", "/">>

HttpsScheme == <<"h", "t", "t", "p", "s", ":", "/", "/">>

HasPrefix(s, p) == Len(s) >= Len(p) /\ SubSeq(s, 1, Len(p)) = p

\* a destination that begins with http:// or https:// is a network sink,
\* anything else is a file path
IsNetworkSink(d) == HasPrefix(d, HttpScheme) \/ HasPrefix(d, HttpsScheme)

UrlA == HttpScheme \o <<"a">>

UrlB == HttpsScheme \o <<"b">>

\* a file whose name begins like a scheme without being one
FileH == <<"h", "t", "t", "p">>

\* how the default stream is named in an error
DefaultStream == <<"-">>

\* the -o lists tried
DestChoices ==
    {<<>>, <<OutPath>>, <<UrlA>>, <<FileH, UrlA>>, <<UrlA, UrlB>>,
     <<UrlA, OutPath>>}

\* the response statuses a server may answer with
Statuses == {200, 204, 404, 500}

Is2xx(status) == status >= 200 /\ status < 300

\* a sink that treats only server errors as failures
HttpFailed_OnlyServerErrors(status) == status >= 500

\* a non-2xx response status is a delivery failure
HttpFailed(status) == ~Is2xx(status)

\* a router that gives up at the first destination that failed
NextDest_StopAtFailure(i, n, ok) == IF ok THEN i + 1 ELSE n + 1

\* destinations are independent: the next one is tried whatever happened
NextDest(i, n, ok) == i + 1

\* a router that writes the default stream only when it has no destination
WritesDefaultStream_OnlyAlone(dests, also) == dests = <<>>

\* the default stream is written when no destination is configured, and in
\* addition to the destinations with --stdout
WritesDefaultStream(dests, also) == dests = <<>> \/ also

DeliverIdle ==
    [pc |-> "idle", dests |-> <<>>, also |-> FALSE, doc |-> <<>>, i |-> 0,
     reqs |-> <<>>, tried |-> <<>>, failed |-> <<>>, files |-> {},
     stream |-> "no", err |-> <<>>]

DlIdle == dl = DeliverIdle

\* the outcome of the destination being tried is recorded and the router
\* moves on
\* moves on; status holds the response status, if there was a response
DeliverOutcome(d, ok, status) ==
    [dl EXCEPT !.pc = "next",
               !.i = NextDest(dl.i, Len(dl.dests), ok),
               !.tried = Append(@, [dest |-> d, ok |-> ok,
                                    status |-> status]),
               !.failed = IF ok THEN @ ELSE Append(@, d)]

DeliverFrame == <<keyVars, fsVars, rdVars, cacheVars,
                  cli, run, ctx, resultCh, task, cl, hist>>

\* Deliver(document, destinations, alsoDefaultStream)
DeliverCall ==
    /\ dl.pc = "idle"
    /\ \E ds \in DestChoices, s \in BOOLEAN, d \in Docs :
          dl' = [dl EXCEPT !.pc = "next", !.dests = ds, !.also = s,
                           !.doc = d, !.i = 1]
    /\ UNCHANGED <<DeliverFrame, wbuf>>

\* a file destination is written
DeliverFile ==
    /\ dl.pc = "next"
    /\ dl.i <= Len(dl.dests)
    /\ ~IsNetworkSink(dl.dests[dl.i])
    /\ dl' = [DeliverOutcome(dl.dests[dl.i], TRUE, {})
                 EXCEPT !.files = @ \cup {dl.dests[dl.i]}]
    /\ UNCHANGED <<DeliverFrame, wbuf>>

\* a file destination cannot be written
DeliverFileFail ==
    /\ dl.pc = "next"
    /\ dl.i <= Len(dl.dests)
    /\ ~IsNetworkSink(dl.dests[dl.i])
    /\ dl' = DeliverOutcome(dl.dests[dl.i], FALSE, {})
    /\ UNCHANGED <<DeliverFrame, wbuf>>

\* a network sink: one POST with the document as body
HttpSend ==
    /\ dl.pc = "next"
    /\ dl.i <= Len(dl.dests)
    /\ IsNetworkSink(dl.dests[dl.i])
    /\ dl' = [dl EXCEPT !.pc = "http",
                        !.reqs = Append(@, [to |-> dl.dests[dl.i],
                                            body |-> dl.doc])]
    /\ UNCHANGED <<DeliverFrame, wbuf>>

\* the server answers
HttpResponse ==
    /\ dl.pc = "http"
    /\ \E status \in Statuses :
          dl' = DeliverOutcome(dl.dests[dl.i], ~HttpFailed(status), {status})
    /\ UNCHANGED <<DeliverFrame, wbuf>>

\* no answer: connection failure, DNS failure, deadline expiry
HttpTransportFail ==
    /\ dl.pc = "http"
    /\ dl' = DeliverOutcome(dl.dests[dl.i], FALSE, {})
    /\ UNCHANGED <<DeliverFrame, wbuf>>

\* the default stream receives the document
DeliverStdout ==
    /\ dl.pc = "next"
    /\ dl.i > Len(dl.dests)
    /\ dl.stream = "no"
    /\ WritesDefaultStream(dl.dests, dl.also)
    /\ wbuf' = wbuf \o dl.doc
    /\ dl' = [dl EXCEPT !.stream = "written"]
    /\ UNCHANGED DeliverFrame

\* the default stream fails after taking n bytes, n less than the length
DeliverStdoutFail ==
    /\ dl.pc = "next"
    /\ dl.i > Len(dl.dests)
    /\ dl.stream = "no"
    /\ WritesDefaultStream(dl.dests, dl.also)
    /\ \E n \in 0..(Len(dl.doc) - 1) : wbuf' = wbuf \o SubSeq(dl.doc, 1, n)
    /\ dl' = [dl EXCEPT !.stream = "failed",
                        !.failed = Append(@, DefaultStream)]
    /\ UNCHANGED DeliverFrame

\* Deliver returns: nil, or an error that lists what failed
DeliverReturn ==
    /\ dl.pc = "next"
    /\ dl.i > Len(dl.dests)
    /\ dl.stream # "no" \/ ~WritesDefaultStream(dl.dests, dl.also)
    /\ dl' = [dl EXCEPT !.pc = "done", !.err = dl.failed]
    /\ UNCHANGED <<DeliverFrame, wbuf>>

(***************************************************************************)
(* Parts of the state a specification does not use stay as they are here   *)
(***************************************************************************)
Unread == [opened |-> FALSE, exists |-> FALSE, content |-> <<>>]

KeyIdle ==
    /\ kReqA = <<>> /\ kReqB = <<>>
    /\ kCwdA = NoCwd /\ kCwdB = NoCwd
    /\ kCntA = <<>> /\ kCntB = <<>>
    /\ kKeyA = <<>> /\ kKeyB = <<>>
    /\ kN = 0

RdIdle ==
    /\ awPrior = View(NoFile)
    /\ rdSeen = Unread

CacheIdle ==
    /\ cTtl = 0 /\ cStale = 0
    /\ cdir = ""
    /\ gs = GsIdle
    /\ st = StIdle
    /\ log = {}


CliIdle == [Filename |-> <<>>, OutputFile |-> <<>>, WriteIfChanged |-> FALSE,
            Timeout |-> 0, cacheKey |-> ""]

RunVarsIdle ==
    /\ cli = CliIdle
    /\ run = RunIdle
    /\ ctx = "active"
    /\ resultCh = <<>>
    /\ task = TaskIdle
    /\ wbuf = <<>>
    /\ cl = ClIdle
    /\ hist = HistInit

(***************************************************************************)
(* Spec: one invocation of CLI.Run, with its background task, the cache    *)
(* cleaner, the deadline timer and the clock                               *)
(***************************************************************************)
InputFile == <<"f">>

\* what an earlier run left under the request's key and at the output path
OldDoc == <<"d", "1">>

\* the permission bits the output file may have been left with
OldModes == {"0644", "0600"}

\* an entry of the cache directory: a document, or a file without bytes
CacheEntries == {OldDoc, <<>>}

\* cli.Cache and cli.Stale: no cache, or a cache whose entries are fresh up
\* to age 1 and stale up to age 2
CacheSettings == {<<0, 0>>, <<1, 2>>}

RunRequests ==
    [Filename : {InputFile, Stdin}, OutputFile : {<<>>, OutPath},
     WriteIfChanged : BOOLEAN, Timeout : {0, 1}, cacheKey : {""}]

\* the state before Run is called with one of the given requests
RunInit(requests) ==
    /\ cli \in requests
    /\ cli.WriteIfChanged => cli.OutputFile # <<>>
    /\ run = RunIdle
    /\ ctx = "active"
    /\ resultCh = <<>>
    /\ task = TaskIdle
    /\ wbuf = <<>>
    /\ cl = ClIdle
    /\ hist = HistInit
    /\ \E cs \in CacheSettings : cTtl = cs[1] /\ cStale = cs[2]
    /\ gs = GsIdle
    /\ st = StIdle
    /\ log = {}
    /\ now = 1         \* the files of the earlier run are one time unit old
    /\ aw = [p \in Procs |-> AwIdle]
    /\ \E ce \in {NoFile} \cup {File(c, "0600", 0) : c \in CacheEntries},
          o \in {NoFile} \cup {File(OldDoc, m, 0) : m \in OldModes} :
         /\ ce.exists => cTtl > 0
         /\ o.exists => cli.OutputFile # <<>>
         /\ cdir = IF ce.exists THEN "0755" ELSE ""
         /\ fs = [q \in FsPaths |-> IF q = CachePath THEN ce
                                    ELSE IF q = OutPath THEN o ELSE NoFile]
    /\ awPrior = View(fs[OutPath])
    /\ rdSeen = Unread
    /\ KeyIdle
    /\ DlIdle

Init == RunInit(RunRequests)

Next ==
    \/ RunStart
    \/ RunPark
    \/ RunRecvResult
    \/ RunCtxDone
    \/ DeadlineFire
    \/ TaskRead
    \/ TaskReadFail
    \/ TaskKey
    \/ TaskKeyFail
    \/ GsStat
    \/ GsRead
    \/ GsReadFail
    \/ GsRemove
    \/ GsRemoveFail
    \/ TaskLookupDone
    \/ TaskEvalOk
    \/ TaskEvalFail
    \/ TaskEvalReadFail
    \/ StMkdir
    \/ StMkdirFail
    \/ StReturn
    \/ TaskSetDone
    \/ TaskWriteSkip
    \/ TaskWriteFile
    \/ TaskWriteFileDone
    \/ TaskWriteStream
    \/ TaskWriteStreamFail
    \/ TaskPost
    \/ AwCreateTemp(Task)
    \/ AwWrite(Task)
    \/ AwSync(Task)
    \/ AwChmod(Task)
    \/ AwClose(Task)
    \/ AwRename(Task)
    \/ AwFail(Task)
    \/ CleanScan
    \/ CleanRemove
    \/ CleanRemoveFail
    \/ Tick

Spec == Init /\ [][Next]_vars

\* the goroutine that called Run is scheduled whenever it can run
RunSelect == RunPark \/ RunRecvResult \/ RunCtxDone

FairSpec == Spec /\ WF_vars(RunSelect)

(***************************************************************************)
(* Properties of one invocation of Run                                     *)
(***************************************************************************)
\* the task is still reading, looking up, evaluating, caching or delivering
TaskBusy == task.pc \in {"read", "key", "lookup", "eval", "set", "write", "writing"}

\* processRequest has returned
TaskFinished == task.pc \in {"post", "done"}

\* the lookup of this run has returned
LookupDone == gs.pc = "done" /\ task.pc \notin {"idle", "read", "key"}

LookupFresh == LookupDone /\ gs.exists /\ ~gs.isStale

LookupStale == LookupDone /\ gs.exists /\ gs.isStale

\* the destination holds exactly document d
Delivered(d) ==
    IF cli.OutputFile = <<>> THEN wbuf = d
    ELSE View(fs[OutPath]) = [exists |-> TRUE, content |-> d]

IsProperPrefix(s, d) == Len(s) < Len(d) /\ s = SubSeq(d, 1, Len(s))

C4_FreshHitSkipsEvaluation ==
    LookupFresh =>
        /\ hist.evalCalls = 0
        /\ task.pc # "lookup" => hist.outArgs = <<gs.content>>
        /\ (TaskFinished /\ task.res = ErrNil) => Delivered(gs.content)

\* a run finished on a fresh hit with the old document delivered
C4_Witness ==
    /\ LookupFresh /\ gs.content = OldDoc
    /\ task.pc = "done" /\ task.res = ErrNil
    /\ Delivered(OldDoc)

EvalSucceeded == hist.evalCalls = 1 /\ ~hist.evalErr

CacheEntryIs(d) == View(fs[CachePath]) = [exists |-> TRUE, content |-> d]

\* C6 as stated: when a stale entry exists and the evaluation succeeds, the
\* new document is what is delivered and, once the task has finished, the
\* cache entry holds the new document.
C6_EntryReplaced ==
    (LookupStale /\ EvalSucceeded /\ TaskFinished) =>
        /\ hist.outArgs = <<task.jsonStr>>
        /\ CacheEntryIs(task.jsonStr)

\* C6 amended: when a stale entry exists and the evaluation succeeds, the
\* new document (never the stale bytes) is what is delivered, and it is
\* handed to the cache write, which is best effort: a failed write is logged
\* as 'Failed to save cache' and does not stop the delivery; after a
\* successful write the entry holds the new document unless the concurrent
\* cleanup has removed it.
C6_NewDocumentPreferred ==
    (LookupStale /\ EvalSucceeded /\ task.pc # "set") =>
        /\ hist.setArgs = <<task.jsonStr>>
        /\ hist.outArgs = <<task.jsonStr>>
        /\ (TaskFinished /\ task.res = ErrNil) => Delivered(task.jsonStr)
        /\ st.pc = "done"
        /\ st.err => "Failed to save cache" \in log
        /\ ~st.err => (CacheEntryIs(task.jsonStr) \/ ~fs[CachePath].exists)

\* a stale entry has been replaced by a different new document, which has
\* also been delivered
C6_Witness ==
    /\ LookupStale /\ EvalSucceeded /\ task.pc = "done"
    /\ gs.content = OldDoc /\ task.jsonStr # OldDoc
    /\ CacheEntryIs(task.jsonStr)
    /\ task.res = ErrNil /\ Delivered(task.jsonStr)

\* the errors processRequest can report
TaskErrors == {ErrStdin, ErrReadFile, ErrEvaluate, ErrDeliver}

\* the document the run hands to delivery, if it got that far
HandedOver == IF hist.outArgs = <<>> THEN <<>> ELSE hist.outArgs[1]

\* C7 as stated: a run that has returned success has delivered the document;
\* a run that has returned an error, the deadline error included, has not,
\* neither then nor later; and nothing but a complete document ever reaches
\* the destination.
C7_OneOutcome ==
    /\ run.pc = "returned" =>
          IF run.ret = ErrNil THEN hist.delivered /\ Delivered(HandedOver)
          ELSE ~hist.delivered /\ wbuf = <<>> /\ View(fs[OutPath]) = awPrior
    /\ wbuf \in {<<>>, HandedOver}

\* C7 amended: Run returns one outcome.  Success means the document was
\* delivered completely.  An error reported by the background task (read,
\* evaluation or delivery failure) means it was not: a file destination is
\* left as it was, and a stream destination has received at most a leading
\* part of the document, when the stream write itself failed.  After the
\* deadline error the abandoned task may still deliver.  A file destination
\* never holds a partial document.
C7_OutcomeMatchesDelivery ==
    /\ run.pc = "returned" /\ run.ret = ErrNil =>
          /\ task.pc = "done" /\ task.res = ErrNil
          /\ hist.delivered /\ Delivered(HandedOver)
    /\ run.pc = "returned" /\ run.ret \in TaskErrors =>
          /\ task.pc = "done" /\ task.res = run.ret
          /\ ~hist.delivered
          /\ View(fs[OutPath]) = awPrior
          /\ IF run.ret = ErrDeliver /\ cli.OutputFile = <<>>
             THEN IsProperPrefix(wbuf, HandedOver)
             ELSE wbuf = <<>>
    /\ run.pc = "returned" => run.ret \in TaskErrors \cup {ErrNil, ErrTimedOut}
    /\ View(fs[OutPath]) \in {awPrior, [exists |-> TRUE, content |-> HandedOver]}

\* Run has returned a delivery error for a file destination that still
\* holds what it held before
C7_Witness ==
    /\ run.pc = "returned" /\ run.ret = ErrDeliver
    /\ cli.OutputFile = OutPath /\ awPrior.exists
    /\ HandedOver # awPrior.content
    /\ View(fs[OutPath]) = awPrior

\* C8 as stated: the event that happens first decides.  If the result was
\* posted before the deadline fired Run returns the task's result, and if
\* the deadline fired before the result was posted Run returns the deadline
\* error.
C8_FirstEventDecides ==
    (run.pc = "returned" /\ hist.events # <<>>) =>
        IF hist.events[1] = "post" THEN run.ret = task.res
        ELSE run.ret = ErrTimedOut

\* C8 amended: the event that has happened when Run's select runs decides.
\* If only the result has been posted Run returns the task's result; if
\* only the deadline has fired Run returns the deadline error; a Run that
\* is already blocked in the select is woken by the first of the two.  If
\* both have happened before the select runs, in either order, Run returns
\* one of the two outcomes.
C8_ReadyEventDecides ==
    run.pc = "returned" =>
        /\ run.ready # {}
        /\ run.ready = {"result"} => (task.pc = "done" /\ run.ret = task.res)
        /\ run.ready = {"done"} => (ctx = "deadline" /\ run.ret = ErrTimedOut)
        /\ run.ready = {"result", "done"} =>
              /\ task.pc = "done" /\ ctx = "deadline"
              /\ run.ret \in {task.res, ErrTimedOut}
        /\ hist.events = <<"post">> => run.ready = {"result"}
        /\ (hist.events # <<>> /\ hist.events[1] = "deadline"
            /\ run.ret # ErrTimedOut) => run.ready = {"result", "done"}

\* the deadline fired first, Run returned the deadline error, and the result
\* the task posted afterwards was left in the channel
C8_Witness ==
    /\ run.pc = "returned" /\ run.ready = {"done"} /\ run.ret = ErrTimedOut
    /\ hist.events = <<"deadline", "post">>
    /\ resultCh = <<task.res>>

\* the file exists and holds exactly the bytes of data
SameBytes(f, data) == f.exists /\ f.content = data

\* a step in which writeOutput, delivering to a file with --write-if-changed,
\* decides between skipping and writing
WriteIfChangedStep ==
    /\ task.pc = "write" /\ task'.pc # "write"
    /\ cli.OutputFile # <<>> /\ cli.WriteIfChanged

\* the decision was to skip: writeOutput returns nil at once
SkipStep == task'.pc = "post"

\* the decision was to write: writeFileAtomic(cli.OutputFile, data, 0644)
WriteCallStep ==
    /\ task'.pc = "writing"
    /\ aw' = AwCall(Task, OutPath, task.out, "0644")

\* C13 as stated: with write-if-changed, delivery to a file skips the write,
\* leaving the file, its modification time and the atomic writer untouched,
\* if and only if the existing file has the bytes of the new document;
\* otherwise the new document is written.
C13_SkipIffSameBytes ==
    [][WriteIfChangedStep =>
         IF SameBytes(fs[OutPath], task.out)
         THEN SkipStep /\ fs' = fs /\ aw' = aw
         ELSE WriteCallStep]_vars

\* C13 amended: with write-if-changed, delivery to a file skips the write,
\* leaving the file, its modification time and the atomic writer untouched,
\* only if the existing file has the same length and the same bytes as the
\* new document; if the file is missing, has a different length or differs
\* in a byte, the new document is written.  A file with the same bytes is
\* skipped unless it cannot be opened or read for the comparison, in which
\* case the document is written again.
C13_SkipOnlyIfSameBytes ==
    [][WriteIfChangedStep =>
         /\ SkipStep \/ WriteCallStep
         /\ SkipStep => (SameBytes(fs[OutPath], task.out) /\ fs' = fs /\ aw' = aw)
         /\ ~SameBytes(fs[OutPath], task.out) => WriteCallStep]_vars

\* the run has delivered by skipping: the file holds the document and still
\* has the modification time it had before the run
C13_Witness ==
    /\ cli.OutputFile # <<>> /\ cli.WriteIfChanged
    /\ TaskFinished /\ task.res = ErrNil /\ hist.delivered
    /\ task.out = OldDoc
    /\ fs[OutPath] = File(OldDoc, "0644", 0)
    /\ now > 0

\* the run has no stale value to fall back on: the cache is disabled, no key
\* could be generated, or the lookup returned a miss
NoStaleValue == ~LookupStale

\* nothing has reached a destination: the stream is empty and the output
\* file is what it was before the run
NothingDelivered ==
    /\ hist.outArgs = <<>> /\ ~hist.delivered
    /\ wbuf = <<>>
    /\ fs[OutPath].exists = awPrior.exists /\ fs[OutPath].content = awPrior.content
    /\ ~fs[TempFor(OutPath, Task)].exists

\* the run has written nothing under the request's key: Set was not called
\* and an entry that exists is older than the run
NoCacheWrite ==
    /\ hist.setArgs = <<>> /\ st = StIdle
    /\ fs[CachePath].exists => fs[CachePath].mtime = 0
    /\ ~fs[TempFor(CachePath, Task)].exists

\* Run has returned the deadline error after the deadline expired
RunTimedOut == run.ret = ErrTimedOut /\ ctx = "deadline"

\* C14 as stated: if the evaluation fails and no stale value is available,
\* Run returns the evaluation error, nothing is delivered and no cache entry
\* is written.
C14_EvalErrorReturned ==
    (hist.evalErr /\ NoStaleValue) =>
        /\ NothingDelivered /\ NoCacheWrite
        /\ run.pc = "returned" => run.ret = ErrEvaluate

\* C14 amended: if the evaluation fails and no stale value is available, the
\* task's result is the evaluation error, nothing is delivered and no cache
\* entry is written; Run returns the evaluation error unless the configured
\* deadline expired first, in which case it returns the deadline error.
C14_EvalErrorUnlessDeadline ==
    (hist.evalErr /\ NoStaleValue) =>
        /\ NothingDelivered /\ NoCacheWrite
        /\ TaskFinished /\ task.res = ErrEvaluate
        /\ run.pc = "returned" => (run.ret = ErrEvaluate \/ RunTimedOut)
        /\ (run.pc = "returned" /\ ctx # "deadline") => run.ret = ErrEvaluate

\* Run has returned the evaluation error of a run whose cache entry was
\* beyond the stale window
C14_Witness ==
    /\ hist.evalErr /\ LookupDone /\ gs.branch = "expired"
    /\ run.pc = "returned" /\ run.ret = ErrEvaluate

\* the evaluation succeeded and the cache write that followed has failed
CacheWriteFailed == EvalSucceeded /\ task.pc # "set" /\ st.pc = "done" /\ st.err

\* what writeOutput returned for the document, once it has returned
DeliveryResult == IF hist.delivered THEN ErrNil ELSE ErrDeliver

\* C15 as stated: a failed cache write does not change the outcome of a run
\* whose evaluation succeeded: the document is handed to delivery all the
\* same and Run returns exactly the delivery result.
C15_CacheFailureInvisible ==
    CacheWriteFailed =>
        /\ hist.outArgs = <<task.jsonStr>>
        /\ run.pc = "returned" => (TaskFinished /\ run.ret = DeliveryResult)

\* C15 amended: a failed cache write is logged and does not change the
\* outcome of a run whose evaluation succeeded: the document is handed to
\* delivery all the same, the task's result is exactly the delivery result
\* (success with the document at the destination, or the delivery error),
\* and Run returns it unless the configured deadline expired first, in
\* which case it returns the deadline error.
C15_CacheFailureOnlyLogged ==
    CacheWriteFailed =>
        /\ "Failed to save cache" \in log
        /\ hist.outArgs = <<task.jsonStr>>
        /\ TaskFinished =>
              /\ task.res = DeliveryResult
              /\ task.res = ErrNil => Delivered(task.jsonStr)
        /\ run.pc = "returned" =>
              \/ TaskFinished /\ run.ret = DeliveryResult
              \/ RunTimedOut
        /\ (run.pc = "returned" /\ ctx # "deadline") =>
              (TaskFinished /\ run.ret = DeliveryResult)

\* the cache directory could not be created, the document was delivered
\* and Run has returned success
C15_Witness ==
    /\ CacheWriteFailed /\ "Failed to create cache directory" \in log
    /\ run.pc = "returned" /\ run.ret = ErrNil
    /\ Delivered(task.jsonStr)

\* the evaluation succeeded and writeOutput has returned an error for its
\* document
DeliveryFailed == EvalSucceeded /\ hist.outErr

\* C16 as stated: if the evaluation succeeds but the delivery fails, Run
\* returns the delivery error.
C16_DeliveryErrorReturned ==
    (DeliveryFailed /\ run.pc = "returned") => run.ret = ErrDeliver

\* C16 amended: if the evaluation succeeds but the delivery fails, the
\* background task's result is the delivery error, and Run returns the
\* delivery error unless the configured deadline expired first, in which
\* case it returns the deadline error.
C16_DeliveryErrorUnlessDeadline ==
    DeliveryFailed =>
        /\ TaskFinished
        /\ task.res = ErrDeliver
        /\ ~hist.delivered
        /\ run.pc = "returned" => (run.ret = ErrDeliver \/ RunTimedOut)
        /\ (run.pc = "returned" /\ ctx # "deadline") => run.ret = ErrDeliver

\* a freshly evaluated document could not be written to the stream and Run
\* has returned the delivery error
C16_Witness ==
    /\ DeliveryFailed /\ cli.OutputFile = <<>>
    /\ hist.outArgs = <<task.jsonStr>>
    /\ run.pc = "returned" /\ run.ret = ErrDeliver

\* the source could not be read: by processRequest, or by the engine
SourceUnreadable == hist.srcErr \in {"read", "engine"}

\* the read of the source in processRequest has failed
ReadFailed == hist.srcErr = "read"

\* the input error for the request's kind of source
InputError == IF cli.Filename = Stdin THEN ErrStdin ELSE ErrReadFile

\* C17 as stated: if the source cannot be read the run fails with that
\* input error at once: the engine is not invoked, nothing is written to the
\* cache, nothing is delivered and a stale entry is not used.
C17_InputErrorImmediate ==
    SourceUnreadable =>
        /\ hist.evalCalls = 0
        /\ NoCacheWrite
        /\ NothingDelivered
        /\ run.pc = "returned" => run.ret = InputError

\* C17 amended: if the read of the source in processRequest fails (a failed
\* stream read, or an unreadable file when the cache is enabled) the task
\* fails with that input error at once: the engine is not invoked, the cache
\* is neither looked up nor written, nothing is delivered and a stale entry
\* is not used; Run returns the input error unless the configured deadline
\* expired first.  A file that only the engine fails to read (the cache is
\* disabled, or the file became unreadable after the first read) is an
\* evaluation failure.
C17_ReadErrorImmediate ==
    /\ ReadFailed =>
          /\ hist.evalCalls = 0
          /\ gs = GsIdle
          /\ NoCacheWrite
          /\ NothingDelivered
          /\ "Evaluation failed, using stale cache" \notin log
          /\ TaskFinished /\ task.res = InputError
          /\ run.pc = "returned" =>
                (run.ret = InputError \/ RunTimedOut)
          /\ (run.pc = "returned" /\ ctx # "deadline") =>
                run.ret = InputError
    /\ hist.srcErr = "engine" =>
          /\ hist.evalCalls = 1 /\ hist.evalErr
          /\ cli.Filename # Stdin
          /\ NoCacheWrite

\* the file could not be read while a stale entry was in the cache, and Run
\* has returned the input error
C17_Witness ==
    /\ ReadFailed /\ cli.Filename # Stdin
    /\ CacheEntryIs(OldDoc) /\ now - fs[CachePath].mtime = 2
    /\ run.pc = "returned" /\ run.ret = ErrReadFile

\* Clean's call of os.Remove for the entry has returned
CleanRemoveReturned == cl.pc = "remove" /\ cl'.pc = "done"

\* the age of the cache entry as os.Stat and time.Since give it
EntryAge == now - fs[CachePath].mtime

\* C21: one call of Clean with ttl > 0 removes every entry that is older
\* than max(ttl, staleExtension), and removes no entry whose age is at most
\* max(ttl, staleExtension).
C21_CleanRemovesExactlyExpired ==
    [][/\ (cl.pc = "scan" /\ cTtl > 0 /\ cl' # cl /\ fs[CachePath].exists
           /\ EntryAge > CleanMaxAge(cTtl, cStale)) => cl'.pc = "remove"
       /\ CleanRemoveReturned => ~fs'[CachePath].exists
       /\ (CleanRemoveReturned /\ fs' # fs) =>
             EntryAge > CleanMaxAge(cTtl, cStale)]_vars

\* C25: no step of Run or of its background task, before or after Run
\* returns, changes a field of the request value.
C25_RequestNotMutated == [][cli' = cli]_vars

\* GetWithStale has returned after os.ReadFile of the entry failed
EntryReadFailed == gs.pc = "done" /\ gs.readErr

\* C26: an I/O error while reading an existing cache entry is logged and
\* reported by GetWithStale as a miss; it is not an error of the run, which
\* goes on to evaluate as after any miss: no stale value is kept, the
\* evaluation is invoked, and the task's result is that of the evaluation
\* and the delivery of its document.
C26_ReadErrorIsMiss ==
    EntryReadFailed =>
        /\ ~gs.exists /\ gs.content = <<>> /\ ~gs.isStale
        /\ \E w \in {"Failed to read fresh cache file",
                     "Failed to read stale cache file"} : w \in log
        /\ task.pc # "lookup" => (task.staleContent = <<>> /\ cli.cacheKey = "K")
        /\ TaskFinished =>
              /\ hist.evalCalls = 1
              /\ task.res = IF hist.evalErr THEN ErrEvaluate ELSE DeliveryResult
        /\ hist.outArgs # <<>> =>
              (EvalSucceeded /\ hist.outArgs = <<task.jsonStr>>)

\* the stale entry could not be read, the run evaluated, delivered the new
\* document and returned success
C26_Witness ==
    /\ EntryReadFailed /\ gs.branch = "stale"
    /\ hist.evalCalls = 1
    /\ run.pc = "returned" /\ run.ret = ErrNil
    /\ Delivered(task.jsonStr)


\* Run has returned nil for a request with an output file and without
\* --write-if-changed
SucceededWithoutWriteIfChanged ==
    /\ run.pc = "returned" /\ run.ret = ErrNil
    /\ cli.OutputFile # <<>>
    /\ ~cli.WriteIfChanged

\* C30: without --write-if-changed, a run that succeeded with an output file
\* has written the file atomically: the file holds the document with mode
\* 0644 and the modification time of the run's rename, not the one it had
\* before, also when it already held the same bytes; no temporary file is
\* left.
C30_WritesWhenDisabled ==
    SucceededWithoutWriteIfChanged =>
        /\ hist.delivered
        /\ fs[OutPath] # File(OldDoc, "0644", 0)
        /\ fs[OutPath].exists
        /\ fs[OutPath].content = task.out
        /\ fs[OutPath].mode = "0644"
        /\ fs[OutPath].mtime \in 1..now
        /\ ~fs[TempFor(OutPath, Task)].exists

\* the output file already held the document the run delivered
C30_Witness ==
    /\ SucceededWithoutWriteIfChanged
    /\ awPrior.exists /\ awPrior.content = task.out
    /\ fs[OutPath].content = task.out
    /\ fs[OutPath].mtime > 0

\* Run has returned nil for a request with an output file
SucceededToFile ==
    /\ run.pc = "returned" /\ run.ret = ErrNil
    /\ cli.OutputFile # <<>>

\* the output file is the one the earlier run left: nothing was written
OutputUntouched ==
    /\ fs[OutPath].mtime = 0
    /\ awPrior = View(fs[OutPath])

\* C31 as stated: after a run that succeeded with an output file, the file
\* holds exactly the delivered document and has mode 0644, whether or not it
\* existed before and whether or not --write-if-changed is set.
C31_FileHoldsDocumentMode0644 ==
    SucceededToFile =>
        /\ fs[OutPath].exists
        /\ fs[OutPath].content = task.out
        /\ fs[OutPath].mode = "0644"

\* C31 amended: after a run that succeeded with an output file, the file
\* holds exactly the delivered document; it has mode 0644 unless
\* --write-if-changed skipped the write because the file already held the
\* document, in which case the file is untouched and keeps its mode.
C31_FileHoldsDocument ==
    SucceededToFile =>
        /\ fs[OutPath].exists
        /\ fs[OutPath].content = task.out
        /\ fs[OutPath].mode # "0644" =>
              /\ cli.WriteIfChanged
              /\ OutputUntouched
              /\ awPrior.content = task.out
        /\ (~cli.WriteIfChanged \/ ~awPrior.exists
            \/ awPrior.content # task.out) => fs[OutPath].mode = "0644"

\* a file left with mode 0600 and other content is replaced by the document
\* with mode 0644, with --write-if-changed
C31_Witness ==
    /\ SucceededToFile
    /\ cli.WriteIfChanged
    /\ awPrior.exists /\ awPrior.content # task.out
    /\ fs[OutPath] = File(task.out, "0644", fs[OutPath].mtime)
    /\ fs[OutPath].mtime > 0

\* the run has called cache.Set
SetAttempted == hist.setArgs # <<>>

\* the steps of processRequest happen in the order read, lookup, evaluate,
\* cache write, deliver
StepsInOrder ==
    /\ gs.pc # "idle" => task.pc \notin {"idle", "read", "key"}
    /\ hist.evalCalls > 0 =>
          /\ gs.pc \in {"idle", "done"}
          /\ gs.pc = "done" => ~FreshHit(gs.exists, gs.isStale)
    /\ (SetAttempted \/ st.pc # "idle") =>
          /\ EvalSucceeded
          /\ hist.setArgs = <<task.jsonStr>>
    /\ aw[Task].path = CachePath => EvalSucceeded
    /\ (fs[CachePath].exists /\ fs[CachePath].mtime > 0) => EvalSucceeded
    /\ (SetAttempted /\ (hist.outArgs # <<>> \/ task.pc \in {"write", "writing"}))
          => st.pc = "done"

\* C32: the steps of a run happen in the order read, lookup, evaluate, cache
\* write, deliver: the cache entry is not written before the evaluation has
\* succeeded and delivery does not start before cache.Set has returned, so
\* that a run whose delivery fails after a cache write that succeeded has
\* left the new document in the cache.
C32_OrderLeavesResultCached ==
    /\ StepsInOrder
    /\ (DeliveryFailed /\ TaskFinished /\ SetAttempted /\ ~st.err) =>
          CacheEntryIs(task.jsonStr)

\* the evaluation of this run has not succeeded (so far): the run is being
\* served from the cache, or fails, or has not evaluated yet
NotEvaluated == ~(hist'.evalCalls = 1 /\ ~hist'.evalErr)

\* C37 as stated: only a successful evaluation writes the cache; a run
\* served from a fresh hit or from the stale fallback, and a run that fails,
\* leave the cache entry's content and modification time unchanged: when
\* such a run has finished, the entry its lookup found is still there as the
\* earlier run wrote it.
C37_EntryUnchangedWithoutEvaluation ==
    (TaskFinished /\ ~EvalSucceeded /\ gs.found) =>
        /\ fs[CachePath].exists
        /\ fs[CachePath].mtime = 0
        /\ fs[CachePath].content \in CacheEntries

\* C37 amended: only a successful evaluation writes the cache; in a run
\* served from a fresh hit or from the stale fallback, and in a run that
\* fails, cache.Set is not called and no step changes the content, mode or
\* modification time of an entry: an entry is either left exactly as it was
\* or, when it has expired, removed by the lookup or by the cleanup.
C37_NoWriteWithoutEvaluation ==
    [][NotEvaluated =>
         /\ fs'[CachePath] = fs[CachePath] \/ ~fs'[CachePath].exists
         /\ fs'[CachePath] # fs[CachePath] =>
               \/ gs.pc = "remove" /\ gs.branch = "expired"
               \/ cl.pc = "remove"
         /\ st' = StIdle
         /\ aw'[Task].path # CachePath
         /\ hist'.setArgs = <<>>]_vars

\* a run served from the stale fallback has finished and the entry is what
\* the earlier run left, with its modification time
C37_Witness ==
    /\ LookupStale /\ hist.evalErr
    /\ task.pc = "done" /\ task.res = ErrNil
    /\ Delivered(OldDoc)
    /\ fs[CachePath] = File(OldDoc, "0600", 0)

\* the modes that give no access to group or others
PrivateModes == {"0600"}

\* the calls of writeFileAtomic in progress on target t
WritersOf(t) == {p \in Procs : aw[p].path = t /\ aw[p].pc \notin {"idle", "done"}}

\* C39: the requested permission bits are on the temporary file before the
\* rename.  Every step that changes what a target path shows and leaves a
\* file there is the rename of a call in progress on that path and shows
\* that call's data with that call's permission bits; the cache entry,
\* whenever it exists, has a mode without access for group or others.
C39_NewContentHasRequestedMode ==
    /\ [][\A t \in TargetPaths :
             (fs'[t] # fs[t] /\ fs'[t].exists) =>
                 \E p \in WritersOf(t) :
                     /\ fs'[t].content = aw[p].data
                     /\ fs'[t].mode = aw[p].perm
                     /\ fs[TempFor(t, p)].mode = aw[p].perm]_vars
    /\ [](fs[CachePath].exists => fs[CachePath].mode \in PrivateModes)

\* a run has stored its document in the cache with mode 0600 and replaced
\* an output file of other content by the document with mode 0644
C39_Witness ==
    /\ SucceededToFile
    /\ awPrior.exists /\ awPrior.content # task.out
    /\ fs[OutPath] = File(task.out, "0644", fs[OutPath].mtime)
    /\ fs[OutPath].mtime > 0
    /\ fs[CachePath] = File(task.out, "0600", fs[CachePath].mtime)
    /\ fs[CachePath].mtime > 0
    /\ SetAttempted
(***************************************************************************)
(* SpecCtx: one call of Run without a cache, writing to the stream, under  *)
(* a caller's context that the caller may cancel or that may carry a       *)
(* deadline of its own.                                                    *)
(***************************************************************************)
CtxRequests ==
    [Filename : {InputFile, Stdin}, OutputFile : {<<>>},
     WriteIfChanged : {FALSE}, Timeout : {0, 1}, cacheKey : {""}]

CtxInit ==
    /\ cli \in CtxRequests
    /\ run = RunIdle
    /\ ctx = "active"
    /\ resultCh = <<>>
    /\ task = TaskIdle
    /\ wbuf = <<>>
    /\ cl = ClIdle
    /\ hist = HistInit
    /\ CacheIdle
    /\ KeyIdle
    /\ DlIdle
    /\ RdIdle
    /\ now = 1
    /\ aw = [p \in Procs |-> AwIdle]
    /\ fs = [q \in FsPaths |-> NoFile]

CtxNext ==
    \/ RunStart
    \/ RunPark
    \/ RunRecvResult
    \/ RunCtxDone
    \/ DeadlineFire
    \/ CallerCancel
    \/ CallerDeadline
    \/ TaskRead
    \/ TaskReadFail
    \/ TaskEvalOk
    \/ TaskEvalFail
    \/ TaskEvalReadFail
    \/ EvalCallExec
    \/ ExecReturn
    \/ ExecCancelled
    \/ ExecTimeout
    \/ EvalCallHttp
    \/ HttpReturn
    \/ HttpFail
    \/ TaskWriteStream
    \/ TaskWriteStreamFail
    \/ TaskPost

SpecCtx == CtxInit /\ [][CtxNext]_vars

\* the deadline-exceeded errors of Run, whatever duration they print
DeadlineErrors == {TimedOutAfter(d) : d \in {0, 1}}

\* the configured deadline of this run has expired
ConfiguredDeadlineExpired == cli.Timeout > 0 /\ ctx = "deadline"

\* the caller's context has ended for a cause of the caller's
CallerEnded == ctx \in {"callerCanceled", "callerDeadline"}

\* C18: the deadline-exceeded error that Run returns prints the configured
\* duration and is returned only when the configured deadline has expired;
\* when Run returns because the caller's context ended for another cause it
\* returns the context's own error.
C18_DeadlineErrorOnlyForDeadline ==
    run.pc = "returned" =>
        /\ run.ret \in DeadlineErrors =>
              /\ run.ret = TimedOutAfter(cli.Timeout)
              /\ ConfiguredDeadlineExpired
        /\ (CallerEnded /\ run.ready = {"done"}) => run.ret = CtxErr(ctx)

\* a native function that blocks on I/O is in flight
CapInFlight == task.pc \in {"exec", "http"}

\* C24: once the context of the run is done (the deadline fired or the
\* caller cancelled), a capability call that is in flight does nothing but
\* return the error of the cancellation, which ends the evaluation.
C24_CapabilityCallsCancelled ==
    [][(CapInFlight /\ ctx # "active" /\ task' # task) =>
          /\ hist'.evalErr /\ task'.pc = "post" /\ task'.res = ErrEvaluate
          /\ hist'.srcErr \in {"command execution timed out",
                               "command execution was cancelled"}]_vars


\* the goroutine of the task is scheduled whenever its send can proceed
FairCtx == SpecCtx /\ WF_vars(TaskPost)

\* the results sent on resultCh so far
Sends == {k \in 1..Len(hist.events) : hist.events[k] = "post"}

\* C34: a Run starts one background task, at its start and never again; the
\* task sends one result on resultCh, which holds at most that one; when
\* processRequest has returned the send can proceed at once, the buffer
\* being empty, so the task terminates, also when Run has returned the
\* deadline error and nobody receives the result.
C34_OneTaskOneSend ==
    /\ [](/\ Len(resultCh) <= 1
          /\ Cardinality(Sends) <= 1
          /\ task.pc = "done" <=> Cardinality(Sends) = 1
          /\ task.pc = "idle" <=> run.pc = "init"
          /\ task.pc = "post" => resultCh = <<>>)
    /\ [][task'.pc = "read" => task.pc \in {"read", "idle"}]_vars
    /\ (task.pc = "post") ~> (task.pc = "done")

\* Run has returned the deadline error; the task has finished later and its
\* result stays in the channel
C34_Witness ==
    /\ run.pc = "returned" /\ run.ret = ErrTimedOut
    /\ ctx = "deadline"
    /\ task.pc = "done"
    /\ resultCh = <<task.res>>
    /\ hist.events = <<"deadline", "post">>
(***************************************************************************)
(* SpecReuse: Run is called on a CLI value that an earlier run has used.   *)
(* The earlier run generated the key of the request and stored it in the   *)
(* unexported field cli.cacheKey, which is still set when this run starts. *)
(***************************************************************************)
ReuseRequests ==
    [Filename : {InputFile}, OutputFile : {<<>>},
     WriteIfChanged : {FALSE}, Timeout : {0, 1}, cacheKey : {"K"}]

ReuseInit == RunInit(ReuseRequests)

ReuseNext ==
    \/ RunStart
    \/ RunPark
    \/ RunRecvResult
    \/ RunCtxDone
    \/ DeadlineFire
    \/ TaskRead
    \/ TaskReadFail
    \/ TaskKey
    \/ TaskKeyFail
    \/ GsStat
    \/ GsRead
    \/ GsReadFail
    \/ GsRemove
    \/ GsRemoveFail
    \/ TaskLookupDone
    \/ TaskEvalOk
    \/ TaskEvalFail
    \/ TaskEvalReadFail
    \/ StMkdir
    \/ StMkdirFail
    \/ StReturn
    \/ TaskSetDone
    \/ TaskWriteStream
    \/ TaskWriteStreamFail
    \/ TaskPost
    \/ AwCreateTemp(Task)
    \/ AwWrite(Task)
    \/ AwSync(Task)
    \/ AwChmod(Task)
    \/ AwClose(Task)
    \/ AwRename(Task)
    \/ AwFail(Task)
    \/ CleanScan
    \/ CleanRemove
    \/ CleanRemoveFail
    \/ Tick

SpecReuse == ReuseInit /\ [][ReuseNext]_vars

\* cache.GenerateCacheKey has failed in this run
KeyGenerationFailed == "Failed to generate cache key" \in log

\* C19: a run whose key generation fails makes no cache lookup and no cache
\* write under any key, also when the CLI value has been used by an earlier
\* run; it evaluates and hands the document to delivery as usual.
C19_KeyFailureDisablesCaching ==
    KeyGenerationFailed =>
        /\ gs = GsIdle
        /\ hist.setArgs = <<>> /\ st = StIdle
        /\ ~fs[TempFor(CachePath, Task)].exists
        /\ TaskFinished => hist.evalCalls = 1
        /\ (TaskFinished /\ EvalSucceeded) => hist.outArgs = <<task.jsonStr>>

(***************************************************************************)
(* SpecAW: NumWriters callers of writeFileAtomic race on the output path   *)
(* while a reader opens the path at arbitrary moments.                     *)
(***************************************************************************)
WriterByte == <<"1", "2", "3", "4">>

\* the payload of writer w: PayloadLen bytes that no other writer uses
Payload(w) == [i \in 1..PayloadLen |-> WriterByte[w]]

PriorContent == <<"0", "0">>

AWInit ==
    /\ \E f \in {NoFile, File(PriorContent, "0644", 0)} :
           fs = [q \in FsPaths |-> IF q = OutPath THEN f ELSE NoFile]
    /\ now = 0
    /\ aw = [p \in Procs |-> AwIdle]
    /\ awPrior = View(fs[OutPath])
    /\ rdSeen = Unread
    /\ KeyIdle
    /\ DlIdle
    /\ CacheIdle
    /\ RunVarsIdle

\* a writer calls writeFileAtomic(out, payload, 0644)
WriterCall(w) ==
    /\ aw[w].pc = "idle"
    /\ aw' = AwCall(w, OutPath, Payload(w), "0644")
    /\ UNCHANGED <<fs, now, rdVars, dlVars, keyVars, cacheVars, runVars>>

\* a reader opens the output path and reads it
ReaderOpen ==
    /\ rdSeen' = [opened |-> TRUE, exists |-> fs[OutPath].exists,
                  content |-> fs[OutPath].content]
    /\ rdSeen' # rdSeen
    /\ UNCHANGED <<fsVars, awPrior, dlVars, keyVars, cacheVars, runVars>>

AWNext ==
    \/ \E w \in Writers : WriterCall(w)
    \/ \E w \in Writers : AwCreateTemp(w)
    \/ \E w \in Writers : AwWrite(w)
    \/ \E w \in Writers : AwSync(w)
    \/ \E w \in Writers : AwChmod(w)
    \/ \E w \in Writers : AwClose(w)
    \/ \E w \in Writers : AwRename(w)
    \/ \E w \in Writers : AwFail(w)
    \/ ReaderOpen

SpecAW == AWInit /\ [][AWNext]_vars

StartedWriters == {w \in Writers : aw[w].pc # "idle"}

CompleteViews ==
    {awPrior} \cup {[exists |-> TRUE, content |-> Payload(w)] : w \in StartedWriters}

\* C1: whenever a reader opens the path, during or after any number of
\* racing writeFileAtomic calls, it sees the path as it was before the calls
\* (absent or the complete prior content) or the complete payload of one
\* writer; the path itself never holds anything else.
C1_AtomicVisibility ==
    /\ View(fs[OutPath]) \in CompleteViews
    /\ rdSeen.opened => View(rdSeen) \in CompleteViews

\* the reader has seen the complete payload of writer 2 while writer 1 is in
\* the middle of writing its own
C1_Witness ==
    /\ rdSeen.opened
    /\ rdSeen.content = Payload(2)
    /\ aw[1].pc = "created"
    /\ aw[1].written = 1


\* every writer has called writeFileAtomic and the call has returned
AllWritersReturned == \A w \in Writers : aw[w].pc = "done"

\* the writers whose call returned nil
SucceededWriters == {w \in Writers : aw[w].pc = "done" /\ ~aw[w].err}

\* the temporary files created by the writers that still exist
LeftoverTemps == {w \in Writers : fs[TempFor(OutPath, w)].exists}

FailsNow(w) == aw[w].pc \notin {"idle", "done"} /\ aw'[w].pc = "done" /\ aw'[w].err

\* writer w's call returns nil in this step: its rename has succeeded
SucceedsNow(w) == aw[w].pc = "closed" /\ aw'[w].pc = "done" /\ ~aw'[w].err

SetRaceInit ==
    /\ cTtl = 1 /\ cStale = 0
    /\ cdir \in {"", "0755"}
    /\ gs = GsIdle
    /\ st = StIdle
    /\ log = {}
    /\ FsInitEmpty
    /\ RdIdle
    /\ KeyIdle
    /\ DlIdle
    /\ RunVarsIdle

\* the run of w calls cache.Set(key, d) with the document d it evaluated:
\* os.MkdirAll succeeds, writeFileAtomic(cachePath, d, 0600) is entered
RaceSet(w) ==
    /\ aw[w].pc = "idle"
    /\ \E d \in Docs : aw' = AwCall(w, CachePath, d, "0600")
    /\ cdir' = IF cdir = "" THEN "0755" ELSE cdir
    /\ UNCHANGED <<fs, now, cTtl, cStale, gs, st, log, keyVars, rdVars, dlVars, runVars>>

\* os.MkdirAll fails: Set returns the error without writing
RaceSetMkdirFail(w) ==
    /\ aw[w].pc = "idle"
    /\ cdir = ""
    /\ aw' = [aw EXCEPT ![w] = [AwIdle EXCEPT !.pc = "done", !.err = TRUE]]
    /\ log' = log \cup {"Failed to create cache directory"}
    /\ UNCHANGED <<fs, now, cTtl, cStale, cdir, gs, st, keyVars, rdVars, dlVars, runVars>>

SetRaceNext ==
    \/ \E w \in Writers : RaceSet(w)
    \/ \E w \in Writers : RaceSetMkdirFail(w)
    \/ \E w \in Writers : AwCreateTemp(w)
    \/ \E w \in Writers : AwWrite(w)
    \/ \E w \in Writers : AwSync(w)
    \/ \E w \in Writers : AwChmod(w)
    \/ \E w \in Writers : AwClose(w)
    \/ \E w \in Writers : AwRename(w)
    \/ \E w \in Writers : AwFail(w)
    \/ Tick

SpecSetRace == SetRaceInit /\ [][SetRaceNext]_vars

\* the writers that have entered writeFileAtomic
RacingWriters == {w \in Writers : aw[w].path = CachePath}

ExpireInit ==
    /\ cTtl = 1
    /\ cStale \in {0, 2}
    /\ cdir = "0755"
    /\ gs = GsBegin
    /\ st = StIdle
    /\ log = {}
    /\ fs = [q \in FsPaths |->
                IF q = CachePath THEN File(OldDoc, "0600", 0) ELSE NoFile]
    /\ now = 1
    /\ aw = [p \in Procs |-> AwIdle]
    /\ RdIdle
    /\ KeyIdle
    /\ DlIdle
    /\ cli = CliIdle
    /\ run = RunIdle
    /\ ctx = "active"
    /\ resultCh = <<>>
    /\ task = TaskIdle
    /\ wbuf = <<>>
    /\ cl = [ClIdle EXCEPT !.pc = "scan"]
    /\ hist = HistInit

ExpireNext ==
    \/ GsStat
    \/ GsRead
    \/ GsReadFail
    \/ GsRemove
    \/ GsRemoveFail
    \/ CleanScan
    \/ CleanRemove
    \/ CleanRemoveFail
    \/ RaceSet(1)
    \/ AwCreateTemp(1)
    \/ AwWrite(1)
    \/ AwSync(1)
    \/ AwChmod(1)
    \/ AwClose(1)
    \/ AwRename(1)
    \/ AwFail(1)
    \/ Tick

SpecExpire == ExpireInit /\ [][ExpireNext]_vars

\* os.Remove of Clean or of GetWithStale returns without error in this step
RemovalStep ==
    \/ cl.pc = "remove" /\ cl'.pc = "done" /\ log' = log
    \/ gs.pc = "remove" /\ gs'.pc = "done" /\ ~gs'.removeErr

\* the file at the entry's path was written less than ttl ago
WithinTtl(f) == f.exists /\ now - f.mtime < cTtl

\* C35: a removal of an expired entry, by Clean or by GetWithStale, never
\* deletes an entry that is within its ttl: whatever a concurrent Set for
\* the same key has done, an entry whose file was written less than ttl ago
\* still exists after the removal step.
C35_RemovalSparesFreshEntry ==
    [][(RemovalStep /\ WithinTtl(fs[CachePath])) => fs'[CachePath].exists]_vars

\* the same for the removal of GetWithStale alone
GsRemovalSparesFreshEntry ==
    [][(gs.pc = "remove" /\ gs'.pc = "done" /\ WithinTtl(fs[CachePath]))
          => fs'[CachePath].exists]_vars
(***************************************************************************)
(* SpecDeliver: one call of Deliver with each list of destinations         *)
(***************************************************************************)
DeliverInit ==
    /\ FsInitEmpty
    /\ KeyIdle
    /\ RdIdle
    /\ CacheIdle
    /\ RunVarsIdle
    /\ DlIdle

DeliverNext ==
    \/ DeliverCall
    \/ DeliverFile
    \/ DeliverFileFail
    \/ HttpSend
    \/ HttpResponse
    \/ HttpTransportFail
    \/ DeliverStdout
    \/ DeliverStdoutFail
    \/ DeliverReturn

SpecDeliver == DeliverInit /\ [][DeliverNext]_vars

\* the requests sent to destination d
RequestsTo(d) == {k \in 1..Len(dl.reqs) : dl.reqs[k].to = d}

\* the error names destination d
ErrorNames(err, d) == \E k \in 1..Len(err) : err[k] = d

Delivering == dl.pc # "idle"

DeliverReturned == dl.pc = "done"

\* the outcomes recorded for network sinks
NetworkOutcomes ==
    {k \in 1..Len(dl.tried) : IsNetworkSink(dl.tried[k].dest)}

\* C27: a network sink gets one request per run, with the document as its
\* body, and never a second one; a response whose status is not 2xx, or no
\* response at all, makes the delivery return an error (which is the error
\* of the run), and a 2xx response makes the delivery to that sink succeed.
C27_NetworkSinkOneRequest ==
    /\ \A k \in 1..Len(dl.reqs) : dl.reqs[k].body = dl.doc
    /\ \A k \in 1..Len(dl.dests) :
          Cardinality(RequestsTo(dl.dests[k])) <= 1
    /\ \A k \in NetworkOutcomes :
          /\ Cardinality(RequestsTo(dl.tried[k].dest)) = 1
          /\ dl.tried[k].ok <=>
                \E s \in dl.tried[k].status : s >= 200 /\ s < 300
          /\ (DeliverReturned /\ ~dl.tried[k].ok) =>
                /\ dl.err # <<>>
                /\ ErrorNames(dl.err, dl.tried[k].dest)
    /\ (DeliverReturned /\ dl.dests = <<UrlA>> /\ dl.stream # "failed"
        /\ dl.tried[1].ok) => dl.err = <<>>

\* a run whose only sink answered 404, and one whose sink answered 204
C27_Witness ==
    /\ DeliverReturned
    /\ dl.dests = <<UrlA, UrlB>>
    /\ dl.tried[1].status = {404} /\ dl.tried[2].status = {204}
    /\ dl.err = <<UrlA>>
    /\ Len(dl.reqs) = 2

SeveralDestinations == Len(dl.dests) >= 2

\* the destinations attempted so far, in the order of the attempts
Attempted == [k \in 1..Len(dl.tried) |-> dl.tried[k].dest]

FailedAttempts == {k \in 1..Len(dl.tried) : ~dl.tried[k].ok}

\* C28: with several destinations, Deliver has attempted every destination
\* when it returns, whether or not an earlier one failed; it returns nil
\* only if every destination succeeded, and otherwise an error that names
\* each destination that failed.
C28_EveryDestinationAttempted ==
    (DeliverReturned /\ SeveralDestinations) =>
        /\ Attempted = dl.dests
        /\ dl.err = <<>> => FailedAttempts = {}
        /\ FailedAttempts # {} => dl.err # <<>>
        /\ \A k \in FailedAttempts : ErrorNames(dl.err, dl.dests[k])
        /\ \A k \in 1..Len(dl.tried) :
              dl.tried[k].ok => ~ErrorNames(dl.err, dl.dests[k])

\* the first of two destinations failed, the second was written all the same
C28_Witness ==
    /\ DeliverReturned
    /\ dl.dests = <<UrlA, OutPath>>
    /\ ~dl.tried[1].ok /\ dl.tried[2].ok
    /\ OutPath \in dl.files
    /\ dl.err = <<UrlA>>

\* C29: when Deliver returns, the default stream has been handed the
\* document if no destination is configured, and also, next to the
\* destinations, if --stdout is set (it holds the whole document unless its
\* own write failed); with a destination and without --stdout it has
\* received nothing.
C29_DefaultStream ==
    /\ DeliverReturned =>
          /\ dl.dests = <<>> => dl.stream # "no"
          /\ (dl.dests # <<>> /\ dl.also) =>
                dl.stream # "no" /\ Attempted = dl.dests
          /\ dl.stream = "written" => wbuf = dl.doc
          /\ dl.stream = "failed" => ErrorNames(dl.err, DefaultStream)
    /\ (dl.dests # <<>> /\ ~dl.also) => dl.stream = "no" /\ wbuf = <<>>

\* --stdout with a file destination: both hold the document
C29_Witness ==
    /\ DeliverReturned
    /\ dl.dests = <<OutPath>> /\ dl.also
    /\ OutPath \in dl.files
    /\ wbuf = dl.doc
    /\ dl.err = <<>>

(***************************************************************************)
(* SpecCache: one client of a Cache created by NewCache(ttl, staleTTL)     *)
(* calls Set and GetWithStale for one key while the clock advances.        *)
(***************************************************************************)
CacheDocs == {<<>>, <<"d">>, <<"e", "e">>}

CacheInit ==
    /\ cTtl \in 0..MaxTtl
    /\ cStale \in 0..MaxStale
    /\ cdir = ""
    /\ gs = GsIdle
    /\ st = StIdle
    /\ log = {}
    /\ FsInitEmpty
    /\ RdIdle
    /\ KeyIdle
    /\ DlIdle
    /\ RunVarsIdle

CacheQuiet == gs.pc \in {"idle", "done"} /\ st.pc \in {"idle", "done"}

\* the client calls c.Set(key, doc)
CacheCallSet ==
    /\ CacheQuiet
    /\ \E d \in CacheDocs : st' = StBegin(d)
    /\ gs' = GsIdle
    /\ UNCHANGED <<fsVars, cTtl, cStale, cdir, log, keyVars, rdVars, dlVars, runVars>>

\* the client calls c.GetWithStale(key)
CacheCallGet ==
    /\ CacheQuiet
    /\ gs' = GsBegin
    /\ st' = StIdle
    /\ UNCHANGED <<fsVars, cTtl, cStale, cdir, log, keyVars, rdVars, dlVars, runVars>>

CacheNext ==
    \/ CacheCallSet
    \/ CacheCallGet
    \/ GsStat
    \/ GsRead
    \/ GsReadFail
    \/ GsRemove
    \/ GsRemoveFail
    \/ StMkdir
    \/ StMkdirFail
    \/ StReturn
    \/ AwCreateTemp(Task)
    \/ AwWrite(Task)
    \/ AwSync(Task)
    \/ AwChmod(Task)
    \/ AwClose(Task)
    \/ AwRename(Task)
    \/ AwFail(Task)
    \/ Tick

SpecCache == CacheInit /\ [][CacheNext]_vars

\* GetWithStale has returned after finding an entry of age gs.age
GsAnswered == gs.pc = "done" /\ gs.found /\ cTtl > 0

GsFresh == gs.exists /\ ~gs.isStale

GsStale == gs.exists /\ gs.isStale

GsAbsentRemoved == ~gs.exists /\ (gs.removeErr \/ ~fs[CachePath].exists)

\* C5 as stated: an entry read e after it was written is fresh when
\* e <= ttl, stale when ttl < e <= ttl + staleExtension, and absent and
\* removed when e > ttl + staleExtension (reads that fail are left aside).
C5_AdditiveWindows ==
    (GsAnswered /\ ~gs.readErr) =>
        /\ gs.age <= cTtl => GsFresh
        /\ (cTtl < gs.age /\ gs.age <= cTtl + cStale) => GsStale
        /\ gs.age > cTtl + cStale => GsAbsentRemoved

\* C5 amended: both windows are measured from the write.  The entry is
\* fresh when e <= ttl; stale when ttl < e <= staleExtension; and absent,
\* with the file removed unless the removal itself fails, when e > ttl and
\* e > staleExtension (always so when staleExtension is 0).  A fresh or
\* stale answer carries the bytes of the entry.
C5_FreshnessWindows ==
    (GsAnswered /\ ~gs.readErr) =>
        /\ gs.age <= cTtl => (GsFresh /\ gs.content = fs[CachePath].content)
        /\ (cTtl < gs.age /\ gs.age <= cStale)
              => (GsStale /\ gs.content = fs[CachePath].content)
        /\ (gs.age > cTtl /\ gs.age > cStale) => GsAbsentRemoved

\* an entry older than ttl but within staleTTL was answered as stale, in a
\* cache whose staleTTL is less than ttl + staleTTL would allow
C5_Witness ==
    /\ GsAnswered /\ ~gs.readErr
    /\ cTtl < gs.age /\ gs.age <= cStale
    /\ GsStale /\ gs.content # <<>>


\* permission bits that give nothing to group or others
OwnerOnly(mode) == mode \in {"0600", "0700"}

CacheFiles == {CachePath} \cup {TempFor(CachePath, p) : p \in Procs}

\* C22: the cache directory that Set creates is accessible to the owner
\* only, and so is every cache entry (0600), the temporary file it is
\* written to included.
C22_CacheOwnerOnly ==
    /\ cdir # "" => OwnerOnly(cdir)
    /\ \A q \in CacheFiles : fs[q].exists => fs[q].mode = "0600"

(***************************************************************************)
(* SpecAgree: GetWithStale and Clean of caches with the same ttl and stale *)
(* duration look at one entry while it grows old.                          *)
(***************************************************************************)
AgreeInit ==
    /\ cTtl \in 0..MaxTtl
    /\ cStale \in 0..MaxStale
    /\ cdir = "0755"
    /\ gs = GsIdle
    /\ st = StIdle
    /\ log = {}
    /\ fs = [q \in FsPaths |->
                IF q = CachePath THEN File(OldDoc, "0600", 0) ELSE NoFile]
    /\ now = 0
    /\ aw = [p \in Procs |-> AwIdle]
    /\ RdIdle
    /\ KeyIdle
    /\ DlIdle
    /\ RunVarsIdle

\* a run calls c.GetWithStale(key) and another calls c.Clean()
AgreeCall ==
    /\ gs.pc = "idle" /\ cl.pc = "idle"
    /\ gs' = GsBegin
    /\ cl' = ClBegin
    /\ UNCHANGED <<fsVars, cTtl, cStale, cdir, st, log, keyVars, rdVars, dlVars,
                   cli, run, ctx, resultCh, task, wbuf, hist>>

AgreeNext ==
    \/ AgreeCall
    \/ GsStat
    \/ GsRead
    \/ GsReadFail
    \/ GsRemove
    \/ GsRemoveFail
    \/ CleanScan
    \/ CleanRemove
    \/ CleanRemoveFail
    \/ Tick

SpecAgree == AgreeInit /\ [][AgreeNext]_vars

\* Clean looks at the entry in this step
CleanDecides == cl.pc = "scan" /\ cl'.pc # "scan" /\ fs[CachePath].exists

\* GetWithStale looks at the entry in this step
GsDecides == gs.pc = "stat" /\ gs'.pc # "stat" /\ fs[CachePath].exists

ZeroRequests ==
    [Filename : {InputFile, Stdin}, OutputFile : {<<>>},
     WriteIfChanged : {FALSE}, Timeout : {0, 1}, cacheKey : {""}]

ZeroInit ==
    /\ cli \in ZeroRequests
    /\ run = RunIdle
    /\ ctx = "active"
    /\ resultCh = <<>>
    /\ task = TaskIdle
    /\ wbuf = <<>>
    /\ cl = ClIdle
    /\ hist = HistInit
    /\ cTtl = 0
    /\ cStale \in {0, MaxStale}
    /\ gs = GsIdle
    /\ st = StIdle
    /\ log = {}
    /\ now = 1
    /\ aw = [p \in Procs |-> AwIdle]
    /\ \E ce \in {NoFile, File(OldDoc, "0600", 0)} :
         /\ cdir = IF ce.exists THEN "0755" ELSE ""
         /\ fs = [q \in FsPaths |-> IF q = CachePath THEN ce ELSE NoFile]
    /\ RdIdle
    /\ KeyIdle
    /\ DlIdle

ZeroNext ==
    \/ RunStart
    \/ RunPark
    \/ RunRecvResult
    \/ RunCtxDone
    \/ DeadlineFire
    \/ TaskRead
    \/ TaskReadFail
    \/ TaskEvalOk
    \/ TaskEvalFail
    \/ TaskEvalReadFail
    \/ TaskWriteStream
    \/ TaskWriteStreamFail
    \/ TaskPost
    \/ CacheCallSet
    \/ CacheCallGet
    \/ Tick

SpecZero == ZeroInit /\ [][ZeroNext]_vars

\* GetWithStale and Set have returned at once: exists = false, err = nil
ZeroAnswers ==
    /\ gs.pc \in {"idle", "done"} /\ ~gs.exists /\ ~gs.found
    /\ gs.content = <<>>
    /\ st.pc \in {"idle", "done"} /\ ~st.err

\* the run consults no cache: it has no key, stores nothing, has no stale
\* value, and whatever it hands to delivery is the document it evaluated
ZeroRunEvaluates ==
    /\ cli.cacheKey = "" /\ hist.setArgs = <<>>
    /\ task.staleContent = <<>>
    /\ task.pc \in {"write", "post", "done"} /\ ~ReadFailed =>
          hist.evalCalls = 1
    /\ hist.outArgs # <<>> =>
          /\ EvalSucceeded
          /\ hist.outArgs = <<task.jsonStr>>

\* C20: with ttl == 0 GetWithStale reports exists = false and Set returns
\* success, and no step reads, creates, changes or removes anything in the
\* cache directory; a run with cache duration zero never serves from the
\* cache: once its input is read it evaluates, and what it delivers is the
\* document it evaluated.
C20_ZeroTtlDisablesCache ==
    [][cTtl = 0 =>
         /\ fs' = fs /\ cdir' = cdir /\ aw' = aw
         /\ ZeroAnswers'
         /\ ZeroRunEvaluates']_vars

\* an entry is in the cache directory, GetWithStale has reported that there
\* is none, and the run has evaluated and delivered its document
C20_Witness ==
    /\ cTtl = 0 /\ cStale > 0
    /\ fs[CachePath].exists /\ now - fs[CachePath].mtime <= cStale
    /\ gs.pc = "done" /\ ~gs.exists
    /\ run.pc = "returned" /\ run.ret = ErrNil
    /\ hist.evalCalls = 1 /\ Delivered(task.jsonStr)

(***************************************************************************)
(* SpecKey: GenerateCacheKey applied to two requests.  Request A is fixed, *)
(* request B starts equal to A and is changed one field at a time; the key *)
(* of B is recomputed after every change.                                  *)
(***************************************************************************)
KeyNames == {<<"a">>, <<"b">>}

KeyValues == {<<"1">>, <<"2">>, <<"\"">>}

KeyOutputs == {<<>>, <<"u">>}

KeyFilenames == {Stdin, <<"t">>, <<"/", "t">>}

KeyCwds == {Cwd(<<"/", "x">>), Cwd(<<"/", "y">>), NoCwd}

KeyContents == {<<>>, <<"{", "}">>, <<"1">>}

KeyDurations == {0, 1}

BaseRequests ==
    { [Output |-> <<>>, Stdout |-> FALSE, WriteIfChanged |-> FALSE,
       ExtStr |-> es, ExtCode |-> ec,
       Timeout |-> 0, Cache |-> 1, Stale |-> 0, Version |-> FALSE,
       Filename |-> fn] :
         es \in {NilMap, MakeMap((<<"a">> :> <<"1">>)),
                 MakeMap((<<"a">> :> <<"1">>) @@ (<<"b">> :> <<"2">>))},
         ec \in {NilMap, MakeMap((<<"a">> :> <<"2">>))},
         fn \in {<<"t">>, Stdin} }

KeyInit ==
    /\ kReqA \in BaseRequests
    /\ kReqB = kReqA
    /\ kCwdA = Cwd(<<"/", "x">>)
    /\ kCwdB = kCwdA
    /\ kCntA = <<"{", "}">>
    /\ kCntB = kCntA
    /\ kKeyA = GenerateCacheKey(kReqA, kCwdA, kCntA)
    /\ kKeyB = kKeyA
    /\ kN = 0
    /\ FsInitEmpty
    /\ RdIdle
    /\ DlIdle
    /\ CacheIdle
    /\ RunVarsIdle

\* request B becomes req, resolved in cwd with source bytes cnt, and its key
\* is generated
KeyChange(req, cwd, cnt) ==
    /\ kN < MaxChanges
    /\ <<req, cwd, cnt>> # <<kReqB, kCwdB, kCntB>>
    /\ kReqB' = req
    /\ kCwdB' = cwd
    /\ kCntB' = cnt
    /\ kKeyB' = GenerateCacheKey(req, cwd, cnt)
    /\ kN' = kN + 1
    /\ UNCHANGED <<kReqA, kCwdA, kCntA, kKeyA, fsVars, rdVars, dlVars, cacheVars, runVars>>

\* m[k] = v: a nil map is made first; a new name takes its place in the
\* iteration order (here the last)
SetMapValue(m, k, v) ==
    IF m.isNil THEN MakeMapIter((k :> v), <<k>>)
    ELSE MakeMapIter([x \in DOMAIN m.kv \cup {k} |-> IF x = k THEN v ELSE m.kv[x]],
                     IF k \in DOMAIN m.kv THEN m.iter ELSE Append(m.iter, k))

\* the orders in which a map with the names of iter can yield them
IterOrders(iter) ==
    {p \in [DOMAIN iter -> {iter[i] : i \in DOMAIN iter}] :
        \A i, j \in DOMAIN iter : p[i] = p[j] => i = j}

KeySetOutput ==
    \E v \in KeyOutputs : KeyChange([kReqB EXCEPT !.Output = v], kCwdB, kCntB)

KeySetStdout ==
    \E b \in BOOLEAN : KeyChange([kReqB EXCEPT !.Stdout = b], kCwdB, kCntB)

KeySetWriteIfChanged ==
    \E b \in BOOLEAN :
        KeyChange([kReqB EXCEPT !.WriteIfChanged = b], kCwdB, kCntB)

KeySetExtStr ==
    \E k \in KeyNames, v \in KeyValues :
        KeyChange([kReqB EXCEPT !.ExtStr = SetMapValue(@, k, v)], kCwdB, kCntB)

KeySetExtCode ==
    \E k \in KeyNames, v \in KeyValues :
        KeyChange([kReqB EXCEPT !.ExtCode = SetMapValue(@, k, v)], kCwdB, kCntB)

\* the same mapping built in another insertion order: ranging over it
\* yields the names in another order
KeyReorderExtStr ==
    \E p \in IterOrders(kReqB.ExtStr.iter) :
        KeyChange([kReqB EXCEPT !.ExtStr.iter = p], kCwdB, kCntB)

KeyReorderExtCode ==
    \E p \in IterOrders(kReqB.ExtCode.iter) :
        KeyChange([kReqB EXCEPT !.ExtCode.iter = p], kCwdB, kCntB)

\* ExtStr or ExtCode is given as map[string]string{}, or left nil
KeySetEmptyExtStr ==
    \E m \in {NilMap, MakeMapIter(<<>>, <<>>)} :
        KeyChange([kReqB EXCEPT !.ExtStr = m], kCwdB, kCntB)

KeySetEmptyExtCode ==
    \E m \in {NilMap, MakeMapIter(<<>>, <<>>)} :
        KeyChange([kReqB EXCEPT !.ExtCode = m], kCwdB, kCntB)

KeySetDurations ==
    \E t \in KeyDurations, c \in KeyDurations, sl \in KeyDurations :
        KeyChange([kReqB EXCEPT !.Timeout = t, !.Cache = c, !.Stale = sl],
                  kCwdB, kCntB)

KeySetFilename ==
    \E fn \in KeyFilenames :
        KeyChange([kReqB EXCEPT !.Filename = fn], kCwdB, kCntB)

KeySetCwd ==
    \E c \in KeyCwds : KeyChange(kReqB, c, kCntB)

KeySetContent ==
    \E c \in KeyContents : KeyChange(kReqB, kCwdB, c)

KeyNext ==
    \/ KeySetOutput
    \/ KeySetStdout
    \/ KeySetWriteIfChanged
    \/ KeySetExtStr
    \/ KeySetExtCode
    \/ KeyReorderExtStr
    \/ KeyReorderExtCode
    \/ KeySetEmptyExtStr
    \/ KeySetEmptyExtCode
    \/ KeySetDurations
    \/ KeySetFilename
    \/ KeySetCwd
    \/ KeySetContent

SpecKey == KeyInit /\ [][KeyNext]_vars

\* the same Go map value up to iteration order: both nil, or both made and
\* holding the same names and values
SameMap(m1, m2) == m1.isNil = m2.isNil /\ m1.kv = m2.kv

\* the two requests agree on every field that is not an output-destination
\* field, on the working directory and on the source bytes
SameButDestination ==
    /\ SameMap(kReqA.ExtStr, kReqB.ExtStr)
    /\ SameMap(kReqA.ExtCode, kReqB.ExtCode)
    /\ kReqA.Timeout = kReqB.Timeout
    /\ kReqA.Cache = kReqB.Cache
    /\ kReqA.Stale = kReqB.Stale
    /\ kReqA.Version = kReqB.Version
    /\ kReqA.Filename = kReqB.Filename
    /\ kCwdA = kCwdB
    /\ kCntA = kCntB

SameDestination ==
    /\ kReqA.Output = kReqB.Output
    /\ kReqA.Stdout = kReqB.Stdout
    /\ kReqA.WriteIfChanged = kReqB.WriteIfChanged

BothKeysOk == ~kKeyA.err /\ ~kKeyB.err

\* C9 as stated: requests that differ only in the output target, the
\* also-stdout flag or the skip-write-if-unchanged flag get the same key.
C9_DestinationIgnored ==
    (SameButDestination /\ BothKeysOk) => kKeyA.key = kKeyB.key

\* C9 amended: the output-destination fields are marshalled with the rest of
\* the request, so two requests that differ only in them, and do differ in
\* at least one of them, get different keys.
C9_DestinationInKey ==
    (SameButDestination /\ ~SameDestination /\ BothKeysOk)
        => kKeyA.key # kKeyB.key

C9_Witness ==
    /\ SameButDestination /\ BothKeysOk
    /\ kReqA.Output # kReqB.Output
    /\ kReqA.Stdout = kReqB.Stdout
    /\ kReqA.WriteIfChanged = kReqB.WriteIfChanged
    /\ kN > 0

\* the maps have the same names and differ in the value of exactly one name
OneValueDiffers(m1, m2) ==
    /\ ~m1.isNil /\ ~m2.isNil
    /\ DOMAIN m1.kv = DOMAIN m2.kv
    /\ Cardinality({k \in DOMAIN m1.kv : m1.kv[k] # m2.kv[k]}) = 1

SameButFor(fields) ==
    /\ SameDestination
    /\ ("ExtStr" \in fields \/ SameMap(kReqA.ExtStr, kReqB.ExtStr))
    /\ ("ExtCode" \in fields \/ SameMap(kReqA.ExtCode, kReqB.ExtCode))
    /\ kReqA.Timeout = kReqB.Timeout
    /\ kReqA.Cache = kReqB.Cache
    /\ kReqA.Stale = kReqB.Stale
    /\ kReqA.Version = kReqB.Version
    /\ ("Path" \in fields \/ (kReqA.Filename = kReqB.Filename /\ kCwdA = kCwdB))
    /\ ("Content" \in fields \/ kCntA = kCntB)

ResolvedPath(req, cwd) ==
    IF req.Filename = Stdin THEN [err |-> FALSE, path |-> <<>>]
    ELSE FilepathAbs(cwd, req.Filename)

DiffersInOneExtStr == SameButFor({"ExtStr"}) /\ OneValueDiffers(kReqA.ExtStr, kReqB.ExtStr)

DiffersInOneExtCode == SameButFor({"ExtCode"}) /\ OneValueDiffers(kReqA.ExtCode, kReqB.ExtCode)

DiffersInContent == SameButFor({"Content"}) /\ kCntA # kCntB

DiffersInPath ==
    /\ SameButFor({"Path"})
    /\ kReqA.Filename # Stdin /\ kReqB.Filename # Stdin
    /\ ResolvedPath(kReqA, kCwdA).path # ResolvedPath(kReqB, kCwdB).path

\* C10: two requests that differ in the value of one external string
\* variable, of one external code variable, in the source bytes, or in the
\* resolved absolute path of the source file (and in nothing else) get
\* different keys.
C10_KeySensitivity ==
    (BothKeysOk /\ (DiffersInOneExtStr \/ DiffersInOneExtCode
                     \/ DiffersInContent \/ DiffersInPath))
        => kKeyA.key # kKeyB.key

C10_Witness ==
    /\ BothKeysOk /\ DiffersInContent /\ kReqB.Filename # Stdin /\ kN > 0

\* the name/value pairs of a map; a nil map has none
MapPairs(m) == {<<k, m.kv[k]>> : k \in DOMAIN m.kv}

\* the two requests have the same source bytes, the same external variables
\* as sets of name/value pairs, and agree on every other field and on the
\* resolved path of the source
SameRequest ==
    /\ SameDestination
    /\ MapPairs(kReqA.ExtStr) = MapPairs(kReqB.ExtStr)
    /\ MapPairs(kReqA.ExtCode) = MapPairs(kReqB.ExtCode)
    /\ kReqA.Timeout = kReqB.Timeout
    /\ kReqA.Cache = kReqB.Cache
    /\ kReqA.Stale = kReqB.Stale
    /\ kReqA.Version = kReqB.Version
    /\ kReqA.Filename = kReqB.Filename
    /\ ResolvedPath(kReqA, kCwdA) = ResolvedPath(kReqB, kCwdB)
    /\ kCntA = kCntB

\* C11: two requests with identical source bytes, identical external
\* variable mappings (as sets of name/value pairs, whatever the order the
\* maps were filled in or are iterated in) and identical other fields get
\* the same key.
C11_KeyDeterministic == SameRequest => kKeyA = kKeyB
(***************************************************************************)
(* SpecSrc: one run with the cache on and nothing cached, while somebody   *)
(* edits the template file.  processRequest reads the file for the cache   *)
(* key; CLI.evaluate hands the file name to the engine, which reads the    *)
(* file itself, or the bytes read from stdin.                              *)
(***************************************************************************)
SrcContents == {<<"1">>, <<"2">>}

\* vm.EvaluateFile / vm.EvaluateAnonymousSnippet of a template that has no
\* input but its own text: the document is a function of the source bytes
EvalDoc(src) == <<"[">> \o src \o <<"]">>

SrcRequests == {r \in BaseRequests : r.ExtStr = NilMap /\ r.ExtCode = NilMap}

SrcInit ==
    /\ kReqA \in SrcRequests
    /\ kReqB = <<>>
    /\ kCwdA = Cwd(<<"/", "x">>)
    /\ kCwdB = NoCwd
    /\ kCntA = <<>> /\ kCntB = <<>>
    /\ kKeyA = <<>> /\ kKeyB = <<>>
    /\ kN = 0
    /\ \E c \in SrcContents :
          fs = [q \in FsPaths |->
                   IF q = SrcPath THEN File(c, "0644", 0) ELSE NoFile]
    /\ now = 1
    /\ aw = [p \in Procs |-> AwIdle]
    /\ cTtl = 1 /\ cStale = 0
    /\ cdir = ""
    /\ gs = GsIdle
    /\ st = StIdle
    /\ log = {}
    /\ RdIdle
    /\ DlIdle
    /\ cli = CliIdle
    /\ run = RunIdle
    /\ ctx = "active"
    /\ resultCh = <<>>
    /\ task = [TaskIdle EXCEPT !.pc = "read"]
    /\ wbuf = <<>>
    /\ cl = ClIdle
    /\ hist = HistInit

SrcFrame == <<cacheVars, rdVars, dlVars, cli, run, ctx, resultCh, wbuf, cl>>

\* somebody saves another version of the template
SrcModify ==
    /\ \E c \in SrcContents \ {fs[SrcPath].content} :
          fs' = [fs EXCEPT ![SrcPath] = File(c, "0644", now)]
    /\ UNCHANGED <<now, aw, keyVars, task, hist, SrcFrame>>

\* contentBytes = io.ReadAll(os.Stdin) or os.ReadFile(cli.Filename)
SrcRead ==
    /\ task.pc = "read"
    /\ task' = [task EXCEPT !.pc = "key"]
    /\ kCntA' = fs[SrcPath].content
    /\ UNCHANGED <<fsVars, kReqA, kReqB, kCwdA, kCwdB, kCntB, kKeyA, kKeyB, kN,
                   hist, SrcFrame>>

\* cacheKey = cache.GenerateCacheKey(cli, contentBytes); the lookup misses
SrcKey ==
    /\ task.pc = "key"
    /\ task' = [task EXCEPT !.pc = "eval"]
    /\ kKeyA' = GenerateCacheKey(kReqA, kCwdA, kCntA)
    /\ UNCHANGED <<fsVars, kReqA, kReqB, kCwdA, kCwdB, kCntA, kCntB, kKeyB, kN,
                   hist, SrcFrame>>

\* an engine that is handed the bytes read for the key
EvaluatedBytes_ReadOnce(req, content, file) == content

\* the bytes the engine evaluates: the snippet read from stdin, or what the
\* file holds when vm.EvaluateFile opens it
EvaluatedBytes(req, content, file) ==
    IF req.Filename = Stdin THEN content ELSE file.content

\* jsonStr = cli.evaluate(...); cache.Set(cli.cacheKey, jsonStr)
SrcEvaluate ==
    /\ task.pc = "eval"
    /\ LET d == EvalDoc(EvaluatedBytes(kReqA, kCntA, fs[SrcPath]))
       IN  /\ task' = [task EXCEPT !.pc = "set", !.jsonStr = d]
           /\ st' = StBegin(d)
           /\ hist' = [hist EXCEPT !.evalCalls = @ + 1,
                                   !.setArgs = Append(@, d)]
    /\ UNCHANGED <<fsVars, keyVars, cTtl, cStale, cdir, gs, log, rdVars, dlVars,
                   cli, run, ctx, resultCh, wbuf, cl>>

SrcNext ==
    \/ SrcModify
    \/ SrcRead
    \/ SrcKey
    \/ SrcEvaluate
    \/ StMkdir
    \/ StMkdirFail
    \/ StReturn
    \/ AwCreateTemp(Task)
    \/ AwWrite(Task)
    \/ AwSync(Task)
    \/ AwChmod(Task)
    \/ AwClose(Task)
    \/ AwRename(Task)
    \/ AwFail(Task)

SpecSrc == SrcInit /\ [][SrcNext]_vars

\* the key of the run was derived from bytes b
KeyDerivedFrom(b) == kKeyA = GenerateCacheKey(kReqA, kCwdA, b)

\* C36: the document stored in the cache under key K is the evaluation
\* result of exactly the source bytes from which K was derived, also when
\* the source file is modified between the read for the key and the
\* evaluation.
C36_CachedDocumentMatchesKey ==
    /\ st.pc # "idle" =>
          \E b \in SrcContents : KeyDerivedFrom(b) /\ st.data = EvalDoc(b)
    /\ fs[CachePath].exists =>
          \E b \in SrcContents :
              KeyDerivedFrom(b) /\ fs[CachePath].content = EvalDoc(b)

====
